---------------------------- MODULE Spec2Model ----------------------------
(***************************************************************************)
(* A model of the analytics core of portfolio_analytics: the rebalancing   *)
(* helpers, the portfolio optimiser, the Monte Carlo simulation routines   *)
(* and the bond pricing functions.                                         *)
(*                                                                         *)
(* Floating-point numbers are modelled as extended rationals: a record     *)
(* [n, d] with d > 0 in lowest terms is the finite number n/d, and d = 0   *)
(* is one of the three non-finite values numpy produces: [1,0] is +inf,    *)
(* [-1,0] is -inf and [0,0] is NaN.  Arithmetic is exact; rounding error   *)
(* is outside the model.                                                   *)
(***************************************************************************)
EXTENDS Integers, Sequences, FiniteSets, TLC

(***************************************************************************)
(* Bounds of the model.                                                    *)
(***************************************************************************)
\* largest number of assets in a weight vector of the rebalancing helpers
MaxAssets == 2
\* weights, trades and thresholds are multiples of 1/GridDen
GridDen == 2
\* weights and trades range over -GridMax/GridDen .. GridMax/GridDen
GridMax == 2
\* expected returns are 0..MaxReturn, covariance entries -1..MaxCov (diagonal 0..MaxCov)
MaxReturn == 2
MaxCov == 2
\* largest num_portfolios of random_portfolios
MaxPortfolios == 2
\* rng.random() draws are the multiples of 1/DrawDen in [0, 1)
DrawDen == 2
\* a simulation call draws at most MaxDraws standard normals:
\* num_simulations * horizon * n_assets <= MaxDraws
MaxDraws == 4
\* bonds mature 0..MaxYears years after day 0
MaxYears == 2
\* the system clock moves ClockStep days at a time, MaxTicks times at most
ClockStep == 120
MaxTicks == 6

(***************************************************************************)
(* Extended rational arithmetic (IEEE-754 special values, exact otherwise) *)
(***************************************************************************)
Abs(x) == IF x < 0 THEN -x ELSE x

Sign(x) == IF x > 0 THEN 1 ELSE IF x < 0 THEN -1 ELSE 0

RECURSIVE GCD(_, _)
GCD(a, b) == IF b = 0 THEN a ELSE GCD(b, a % b)

\* the number n/d in canonical form; d = 0 gives +inf, -inf or NaN by the sign of n
Q(n, d) ==
    IF d = 0 THEN [n |-> Sign(n), d |-> 0]
    ELSE LET g == GCD(Abs(n), Abs(d))
             s == Sign(d)
         IN  [n |-> (s * n) \div g, d |-> (s * d) \div g]

Zero == Q(0, 1)
One == Q(1, 1)
NaN == Q(0, 0)
PosInf == Q(1, 0)
NegInf == Q(-1, 0)

IsNaN(a) == a.d = 0 /\ a.n = 0
IsFinite(a) == a.d > 0

QNeg(a) == [n |-> -a.n, d |-> a.d]

\* the sum, over the least common denominator
QAdd(a, b) ==
    IF a.d = 0 /\ b.d = 0
    THEN (IF a.n = b.n THEN a ELSE NaN)
    ELSE IF a.d = 0 \/ b.d = 0
    THEN Q(a.n * b.d + b.n * a.d, 0)
    ELSE LET g == GCD(a.d, b.d)
         IN  Q(a.n * (b.d \div g) + b.n * (a.d \div g), (a.d \div g) * b.d)

QSub(a, b) == QAdd(a, QNeg(b))

\* the product, common factors cancelled crosswise first
QMul(a, b) ==
    LET g1 == IF a.n = 0 /\ b.d = 0 THEN 1 ELSE GCD(Abs(a.n), b.d)
        g2 == IF b.n = 0 /\ a.d = 0 THEN 1 ELSE GCD(Abs(b.n), a.d)
    IN  Q((a.n \div g1) * (b.n \div g2), (a.d \div g2) * (b.d \div g1))

\* 1/b, with 1/0 = +inf and 1/inf = 0
QInv(b) == IF b.n < 0 THEN [n |-> -b.d, d |-> -b.n] ELSE [n |-> b.d, d |-> b.n]

\* numpy true division: x/0 is +-inf, 0/0 is NaN, x/inf is 0
QDiv(a, b) == QMul(a, QInv(b))

\* comparisons are false whenever an operand is NaN
QLt(a, b) ==
    /\ ~IsNaN(a)
    /\ ~IsNaN(b)
    /\ IF a.d = 0 /\ b.d = 0 THEN a.n < b.n ELSE a.n * b.d < b.n * a.d

QLe(a, b) == ~IsNaN(a) /\ ~IsNaN(b) /\ (a = b \/ QLt(a, b))
QGe(a, b) == QLe(b, a)
QNe(a, b) == a # b

QAbs(a) == [n |-> Abs(a.n), d |-> a.d]

\* np.maximum / np.minimum propagate NaN
QMax(a, b) == IF IsNaN(a) \/ IsNaN(b) THEN NaN ELSE IF QLt(a, b) THEN b ELSE a
QMin(a, b) == IF IsNaN(a) \/ IsNaN(b) THEN NaN ELSE IF QLt(b, a) THEN b ELSE a

RECURSIVE QSumTo(_, _)
QSumTo(v, k) == IF k = 0 THEN Zero ELSE QAdd(QSumTo(v, k - 1), v[k])

\* ndarray.sum()
QSum(v) == QSumTo(v, Len(v))

VecSub(a, b) == [i \in 1..Len(a) |-> QSub(a[i], b[i])]
VecAdd(a, b) == [i \in 1..Len(a) |-> QAdd(a[i], b[i])]
VecDiv(a, s) == [i \in 1..Len(a) |-> QDiv(a[i], s)]
\* np.clip(v, lo, None)
VecClipLow(v, lo) == [i \in 1..Len(v) |-> QMax(v[i], lo)]
\* np.clip(v, lo, hi)
VecClip(v, lo, hi) == [i \in 1..Len(v) |-> QMin(QMax(v[i], lo), hi)]

\* the a @ b of two vectors
RECURSIVE DotTo(_, _, _)
DotTo(a, b, k) == IF k = 0 THEN Zero ELSE QAdd(DotTo(a, b, k - 1), QMul(a[k], b[k]))
Dot(a, b) == DotTo(a, b, Len(a))

(***************************************************************************)
(* State                                                                   *)
(***************************************************************************)
VARIABLES
    rb_pc,            \* rebalancing: "idle", "traded", "supplied", "rebalanced", "applied"
    current_weights,  \* rebalancing: the caller's current_weights
    target_weights,   \* rebalancing: the caller's target_weights
    threshold,        \* rebalancing: the caller's threshold
    trades,           \* rebalancing: the trades vector (computed, or supplied by the caller)
    new_weights,      \* rebalancing: the result of apply_rebalance
    op_pc,            \* optimiser: "idle", "sharpe_returned", "rp_loop", "rp_returned"
    op_args,          \* optimiser: the arguments of the call in progress
    sharpe_weights,   \* optimiser: the vector max_sharpe_ratio returned
    portfolios,       \* optimiser: the list random_portfolios builds and returns
    sim_pc,           \* simulation: "idle", "loop", "returned", "raised"
    sim_args,         \* simulation: the arguments of the call in progress
    chol,             \* simulation: the Cholesky factor of cov_matrix
    final_returns,    \* simulation: the array simulate_portfolio_returns fills
    sim_i,            \* simulation: the loop index i
    draws_made,       \* simulation: standard normals drawn by the call in progress
    sim_result,       \* simulation: what the last call returned
    prev_result,      \* simulation: what the call before it returned
    sim_calls,        \* simulation: calls made with these arguments
    today,            \* bonds: the day date.today() returns (days since day 0)
    bond_args,        \* bonds: the function called, its bond and its yield
    bond_result,      \* bonds: what the last call returned
    bond_prev,        \* bonds: what the call before it returned
    bond_calls,       \* bonds: calls made with these arguments
    bond_day,         \* bonds: what date.today() returned to the last call
    risk_args,        \* risk metrics: the function called and its arguments
    risk_result,      \* risk metrics: what the call returned
    san_args,         \* sanitization: the function called and its argument
    san_result,       \* sanitization: what the last call returned (or raised)
    san_prev,         \* sanitization: what the call before it returned
    san_calls,        \* sanitization: calls made
    pa_pc,            \* portfolio analysis: where the caller of analyse is
    pa_portfolio,     \* portfolio analysis: the holdings analysed
    pa_risk,          \* portfolio analysis: what the risk block did
    pa_result,        \* portfolio analysis: what analyse returned
    batch_pc,         \* batch endpoints: where the handler is
    batch_req,        \* batch endpoints: the request being handled
    batch_results,    \* batch endpoints: the results list
    batch_analysed,   \* batch endpoints: the items handed to service.analyse
    batch_status,     \* batch endpoints: the HTTP status of the response
    rl_max,           \* rate limiter: max_calls (0 with rl_period = 0: none built)
    rl_period,        \* rate limiter: period, in clock ticks
    rl_tokens,        \* rate limiter: tokens
    rl_elapsed,       \* rate limiter: monotonic clock less updated_at
    rl_lock,          \* rate limiter: the thread holding lock
    rl_pc,            \* rate limiter: where each thread is in acquire()
    rl_reg,           \* rate limiter: the count a thread read for tokens -= 1
    rl_overtaken,     \* rate limiter: another thread returned while this one waits
    rl_win_age,       \* rate limiter: age of the observed window (period: none)
    rl_win_count,     \* rate limiter: acquire() returns in the observed window
    cache_pc,         \* cache: where the caller of a cached method is
    cache_ttl,        \* cache: ttl, in clock ticks
    cache,            \* cache: self.cache, each entry with the age of its timestamp
    cache_call,       \* cache: the method called and its argument
    cache_found,      \* cache: the entry the call found under its key
    cache_fetches,    \* cache: calls of the underlying source made by the call
    cache_result      \* cache: what the call returned or raised

rbVars == <<rb_pc, current_weights, target_weights, threshold, trades, new_weights>>
opVars == <<op_pc, op_args, sharpe_weights, portfolios>>
simVars == <<sim_pc, sim_args, chol, final_returns, sim_i, draws_made, sim_result,
             prev_result, sim_calls>>
bondVars == <<today, bond_args, bond_result, bond_prev, bond_calls, bond_day>>
riskVars == <<risk_args, risk_result>>
sanVars == <<san_args, san_result, san_prev, san_calls>>
paVars == <<pa_pc, pa_portfolio, pa_risk, pa_result>>
batchVars == <<batch_pc, batch_req, batch_results, batch_analysed, batch_status>>
cacheVars == <<cache_pc, cache_ttl, cache, cache_call, cache_found, cache_fetches,
               cache_result>>
rlVars == <<rl_max, rl_period, rl_tokens, rl_elapsed, rl_lock, rl_pc, rl_reg,
            rl_overtaken, rl_win_age, rl_win_count>>
vars == <<rbVars, opVars, simVars, bondVars, riskVars, sanVars, paVars, batchVars, rlVars, cacheVars>>

(***************************************************************************)
(* domain/portfolio/rebalancing.py                                         *)
(***************************************************************************)
Grid == {Q(k, GridDen) : k \in (-GridMax)..GridMax}
GridVecs == UNION {[1..n -> Grid] : n \in 1..MaxAssets}
Thresholds == {Q(k, GridDen) : k \in 0..2}

\* mutant: the band test written with > instead of >=
compute_rebalance_trades_strict(current, target, thr) ==
    LET diffs == VecSub(target, current)
    IN  [i \in 1..Len(diffs) |-> IF QLt(thr, QAbs(diffs[i])) THEN diffs[i] ELSE Zero]

\* mutant: the difference taken as current - target
compute_rebalance_trades_swapped(current, target, thr) ==
    LET diffs == VecSub(current, target)
    IN  [i \in 1..Len(diffs) |-> IF QGe(QAbs(diffs[i]), thr) THEN diffs[i] ELSE Zero]

compute_rebalance_trades(current, target, thr) ==
    LET diffs == VecSub(target, current)
    IN  [i \in 1..Len(diffs) |-> IF QGe(QAbs(diffs[i]), thr) THEN diffs[i] ELSE Zero]

\* mutant: the clip at zero left out
apply_rebalance_noclip(current, trd) ==
    LET summed == VecAdd(current, trd)
        total == QSum(summed)
    IN  IF QNe(total, Zero) THEN VecDiv(summed, total) ELSE summed

\* mutant: the renormalisation left out
apply_rebalance_no_renormalise(current, trd) ==
    VecClipLow(VecAdd(current, trd), Zero)

apply_rebalance(current, trd) ==
    LET summed == VecAdd(current, trd)
        clipped == VecClipLow(summed, Zero)
        total == QSum(clipped)
    IN  IF QNe(total, Zero) THEN VecDiv(clipped, total) ELSE clipped

InitRebalance ==
    /\ rb_pc = "idle"
    /\ current_weights = <<>>
    /\ target_weights = <<>>
    /\ threshold = Zero
    /\ trades = <<>>
    /\ new_weights = <<>>

\* a caller computes the trades from current to target weights
ComputeRebalanceTrades ==
    /\ rb_pc = "idle"
    /\ \E c \in GridVecs, thr \in Thresholds :
         \E t \in {x \in GridVecs : Len(x) = Len(c)} :
            /\ current_weights' = c
            /\ target_weights' = t
            /\ threshold' = thr
            /\ trades' = compute_rebalance_trades(c, t, thr)
    /\ rb_pc' = "traded"
    /\ UNCHANGED <<new_weights, opVars, simVars, bondVars, riskVars, sanVars, paVars, batchVars, rlVars, cacheVars>>

\* a caller brings a trades vector of its own
SupplyTrades ==
    /\ rb_pc = "idle"
    /\ \E c \in GridVecs :
         \E t \in {x \in GridVecs : Len(x) = Len(c)} :
            /\ current_weights' = c
            /\ trades' = t
    /\ rb_pc' = "supplied"
    /\ UNCHANGED <<target_weights, threshold, new_weights, opVars, simVars, bondVars, riskVars, sanVars, paVars, batchVars, rlVars, cacheVars>>

ApplyRebalance ==
    /\ rb_pc \in {"traded", "supplied"}
    /\ new_weights' = apply_rebalance(current_weights, trades)
    /\ rb_pc' = IF rb_pc = "traded" THEN "rebalanced" ELSE "applied"
    /\ UNCHANGED <<current_weights, target_weights, threshold, trades, opVars, simVars, bondVars, riskVars, sanVars, paVars, batchVars, rlVars, cacheVars>>

\* largest number of assets of a portfolio rebalanced within the no-trade band
BandAssets == 3
\* its weights and the threshold are multiples of 1/BandDen
BandDen == 4

\* weight vectors as the docstrings ask for them: non-negative, summing to 1
SimplexVecs(n) ==
    {v \in [1..n -> {Q(k, BandDen) : k \in 0..BandDen}] : QSum(v) = One}
BandThresholds == {Q(k, BandDen) : k \in 0..BandDen}

\* a caller computes the trades between two valid weight vectors
ComputeBandTrades ==
    /\ rb_pc = "idle"
    /\ \E n \in 1..BandAssets :
         \E c \in SimplexVecs(n), t \in SimplexVecs(n), thr \in BandThresholds :
            /\ current_weights' = c
            /\ target_weights' = t
            /\ threshold' = thr
            /\ trades' = compute_rebalance_trades(c, t, thr)
    /\ rb_pc' = "traded"
    /\ UNCHANGED <<new_weights, opVars, simVars, bondVars, riskVars, sanVars, paVars, batchVars, rlVars, cacheVars>>

NextNoTradeBand == ComputeBandTrades \/ ApplyRebalance

NextRebalance == ComputeRebalanceTrades \/ SupplyTrades \/ ApplyRebalance


(***************************************************************************)
(* Claims about the rebalancing helpers                                    *)
(***************************************************************************)
AllNonNeg(v) == \A i \in 1..Len(v) : QGe(v[i], Zero)
AllZero(v) == \A i \in 1..Len(v) : v[i] = Zero
SomePositive(v) == \E i \in 1..Len(v) : QLt(Zero, v[i])
SomeNegative(v) == \E i \in 1..Len(v) : QLt(v[i], Zero)
\* a weight vector as the docstrings ask for it: non-negative, summing to 1
ValidWeights(v) == AllNonNeg(v) /\ QSum(v) = One
Applied == rb_pc \in {"applied", "rebalanced"}

\* C1 as stated: whatever current_weights and trades are, apply_rebalance
\* returns weights that are all >= 0 and sum to 1.
C1_AlwaysSumsToOne ==
    Applied => AllNonNeg(new_weights) /\ QSum(new_weights) = One

\* C1 amended: apply_rebalance returns weights that are all >= 0; they sum to 1
\* when some component of current_weights + trades is positive, and are all
\* zero when none is.
C1_NonNegAndNormalised ==
    Applied =>
        /\ AllNonNeg(new_weights)
        /\ IF SomePositive(VecAdd(current_weights, trades))
           THEN QSum(new_weights) = One
           ELSE AllZero(new_weights)

\* C1 witness: a negative component was clipped and the rest renormalised
C1_Witness ==
    /\ rb_pc = "applied"
    /\ SomeNegative(VecAdd(current_weights, trades))
    /\ SomePositive(VecAdd(current_weights, trades))
    /\ QSum(VecClipLow(VecAdd(current_weights, trades), Zero)) # One
    /\ QSum(new_weights) = One

\* C2: with threshold 0 and a target that is non-negative and sums to 1,
\* applying the computed trades to any current weights gives the target.
C2_RebalanceReachesTarget ==
    (rb_pc = "rebalanced" /\ threshold = Zero /\ ValidWeights(target_weights))
        => new_weights = target_weights

\* C2 witness: a rebalance at threshold 0 from current weights that are not a
\* valid weight vector and differ from the target
C2_Witness ==
    /\ rb_pc = "rebalanced"
    /\ threshold = Zero
    /\ ValidWeights(target_weights)
    /\ ~ValidWeights(current_weights)
    /\ Len(current_weights) > 1
    /\ new_weights = target_weights

\* C3: every trade is target - current when the absolute difference is not
\* below the threshold and 0 when it is below; a difference equal to the
\* threshold is traded.
C3_NoTradeBand ==
    rb_pc \in {"traded", "rebalanced"} =>
        \A i \in 1..Len(trades) :
            LET diff == QSub(target_weights[i], current_weights[i])
            IN  trades[i] = IF QLt(QAbs(diff), threshold) THEN Zero ELSE diff

\* C3 witness: one difference equal to a positive threshold is traded while a
\* smaller non-zero difference is zeroed
C3_Witness ==
    /\ rb_pc = "traded"
    /\ QLt(Zero, threshold)
    /\ \E i, j \in 1..Len(trades) :
          /\ QAbs(QSub(target_weights[i], current_weights[i])) = threshold
          /\ trades[i] # Zero
          /\ QSub(target_weights[j], current_weights[j]) # Zero
          /\ trades[j] = Zero

\* C28 as stated: after apply_rebalance(current, compute_rebalance_trades(
\* current, target, threshold)) with current and target non-negative and
\* summing to 1, every asset whose trade was zeroed keeps exactly its current
\* weight.
C28_UntradedKeepWeight ==
    (/\ rb_pc = "rebalanced"
     /\ ValidWeights(current_weights)
     /\ ValidWeights(target_weights))
        => \A i \in 1..Len(trades) :
               trades[i] = Zero => new_weights[i] = current_weights[i]

\* C28 amended: the renormalisation of apply_rebalance rescales the assets
\* that were not traded too: the new weight of such an asset times
\* 1 + (the sum of the executed trades) is its current weight, so it keeps its
\* weight exactly when the executed trades sum to zero.
C28_UntradedRescaled ==
    (/\ rb_pc = "rebalanced"
     /\ ValidWeights(current_weights)
     /\ ValidWeights(target_weights))
        => \A i \in 1..Len(trades) :
               trades[i] = Zero
                   => QMul(new_weights[i], QAdd(One, QSum(trades))) = current_weights[i]

\* C28 witness: a difference inside the band was zeroed, the executed trades
\* do not sum to zero, and the untraded asset's weight changed
C28_Witness ==
    /\ rb_pc = "rebalanced"
    /\ ValidWeights(current_weights)
    /\ ValidWeights(target_weights)
    /\ QSum(trades) # Zero
    /\ \E i \in 1..Len(trades) :
          /\ trades[i] = Zero
          /\ target_weights[i] # current_weights[i]
          /\ new_weights[i] # current_weights[i]


(***************************************************************************)
(* domain/portfolio/optimization.py                                        *)
(***************************************************************************)
\* matrices are sequences of rows
MatVec(m, v) == [i \in 1..Len(m) |-> Dot(m[i], v)]
MatScale(m, s) == [i \in 1..Len(m) |-> [j \in 1..Len(m[i]) |-> QMul(m[i][j], s)]]

\* np.linalg.pinv of a 1x1 or 2x2 matrix: the inverse when there is one, the
\* transpose over the squared Frobenius norm for a rank-1 matrix, and the zero
\* matrix for the zero matrix
pinv(m) ==
    IF Len(m) = 1
    THEN <<<<IF m[1][1] = Zero THEN Zero ELSE QDiv(One, m[1][1])>>>>
    ELSE LET a == m[1][1]
             b == m[1][2]
             c == m[2][1]
             d == m[2][2]
             det == QSub(QMul(a, d), QMul(b, c))
             fro == QAdd(QAdd(QMul(a, a), QMul(b, b)), QAdd(QMul(c, c), QMul(d, d)))
         IN  IF det # Zero
             THEN MatScale(<<<<d, QNeg(b)>>, <<QNeg(c), a>>>>, QDiv(One, det))
             ELSE IF fro = Zero
                  THEN m
                  ELSE MatScale(<<<<a, c>>, <<b, d>>>>, QDiv(One, fro))

\* max_sharpe_ratio without the renormalisation after the clip
max_sharpe_ratio_clip_only(expected_returns, cov_matrix, risk_free_rate, bounds) ==
    LET excess_returns == [i \in 1..Len(expected_returns) |->
                              QSub(expected_returns[i], risk_free_rate)]
        raw_weights == MatVec(pinv(cov_matrix), excess_returns)
        normalised == VecDiv(raw_weights, QSum(raw_weights))
    IN  VecClip(normalised, bounds[1], bounds[2])

\* the weights of max_sharpe_ratio after the clip, before the renormalisation
clipped_weights(expected_returns, cov_matrix, risk_free_rate, bounds) ==
    LET excess_returns == [i \in 1..Len(expected_returns) |->
                              QSub(expected_returns[i], risk_free_rate)]
        raw_weights == MatVec(pinv(cov_matrix), excess_returns)
        normalised == VecDiv(raw_weights, QSum(raw_weights))
    IN  VecClip(normalised, bounds[1], bounds[2])

max_sharpe_ratio(expected_returns, cov_matrix, risk_free_rate, bounds) ==
    LET excess_returns == [i \in 1..Len(expected_returns) |->
                              QSub(expected_returns[i], risk_free_rate)]
        inv_cov == pinv(cov_matrix)
        raw_weights == MatVec(inv_cov, excess_returns)
        normalised == VecDiv(raw_weights, QSum(raw_weights))
        clipped == VecClip(normalised, bounds[1], bounds[2])
        total == QSum(clipped)
    IN  IF QNe(total, Zero) THEN VecDiv(clipped, total) ELSE clipped

\* np.sqrt, kept symbolic: the value is the square root of the radicand, and
\* NaN for a negative or NaN radicand
QSqrt(x) == [radicand |-> IF QGe(x, Zero) THEN x ELSE NaN]

\* one pass of the loop body of random_portfolios, for the drawn vector
RandomPortfolio(expected_returns, cov_matrix, drawn) ==
    LET weights == VecDiv(drawn, QSum(drawn))
    IN  [return |-> Dot(weights, expected_returns),
         volatility |-> QSqrt(Dot(MatVec(cov_matrix, weights), weights)),
         weights |-> weights]

Returns == {Q(k, 1) : k \in 0..MaxReturn}
RiskFreeRates == {Q(k, 1) : k \in 0..1}
ReturnVecs(n) == [1..n -> Returns]
\* symmetric matrices of size 1 and 2
CovMatrices(n) ==
    IF n = 1
    THEN {<<<<Q(a, 1)>>>> : a \in 0..MaxCov}
    ELSE {<<<<Q(a, 1), Q(b, 1)>>, <<Q(b, 1), Q(c, 1)>>>> :
              a \in 0..MaxCov, b \in -1..MaxCov, c \in 0..MaxCov}
WeightBounds ==
    {bd \in {Q(-1, 1), Zero, Q(1, 4)} \X {Zero, Q(1, 2), One} : QLe(bd[1], bd[2])}
\* what rng.random(n) can return
Draws(n) == [1..n -> {Q(k, DrawDen) : k \in 0..(DrawDen - 1)}]

NoArgs == [fn |-> "none"]

InitOptimizer ==
    /\ op_pc = "idle"
    /\ op_args = NoArgs
    /\ sharpe_weights = <<>>
    /\ portfolios = <<>>

MaxSharpeRatio ==
    /\ op_pc = "idle"
    /\ \E n \in 1..2 :
         \E er \in ReturnVecs(n), cov \in CovMatrices(n),
            rf \in RiskFreeRates, bd \in WeightBounds :
            /\ op_args' = [fn |-> "max_sharpe_ratio", expected_returns |-> er,
                           cov_matrix |-> cov, risk_free_rate |-> rf, bounds |-> bd]
            /\ sharpe_weights' = max_sharpe_ratio(er, cov, rf, bd)
    /\ op_pc' = "sharpe_returned"
    /\ UNCHANGED <<portfolios, rbVars, simVars, bondVars, riskVars, sanVars, paVars, batchVars, rlVars, cacheVars>>

\* the call, up to the loop: rng, n_assets and the empty list
RandomPortfoliosCall ==
    /\ op_pc = "idle"
    /\ \E n \in 1..2 :
         \E er \in ReturnVecs(n), cov \in CovMatrices(n), num \in 0..MaxPortfolios :
            op_args' = [fn |-> "random_portfolios", expected_returns |-> er,
                        cov_matrix |-> cov, num_portfolios |-> num]
    /\ portfolios' = <<>>
    /\ op_pc' = "rp_loop"
    /\ UNCHANGED <<sharpe_weights, rbVars, simVars, bondVars, riskVars, sanVars, paVars, batchVars, rlVars, cacheVars>>

\* one iteration: draw, normalise, evaluate, append
RandomPortfoliosIter ==
    /\ op_pc = "rp_loop"
    /\ Len(portfolios) < op_args.num_portfolios
    /\ \E drawn \in Draws(Len(op_args.expected_returns)) :
         portfolios' = Append(portfolios,
             RandomPortfolio(op_args.expected_returns, op_args.cov_matrix, drawn))
    /\ UNCHANGED <<op_pc, op_args, sharpe_weights, rbVars, simVars, bondVars, riskVars, sanVars, paVars, batchVars, rlVars, cacheVars>>

RandomPortfoliosReturn ==
    /\ op_pc = "rp_loop"
    /\ Len(portfolios) = op_args.num_portfolios
    /\ op_pc' = "rp_returned"
    /\ UNCHANGED <<op_args, sharpe_weights, portfolios, rbVars, simVars, bondVars, riskVars, sanVars, paVars, batchVars, rlVars, cacheVars>>

NextOptimizer ==
    \/ MaxSharpeRatio
    \/ RandomPortfoliosCall
    \/ RandomPortfoliosIter
    \/ RandomPortfoliosReturn

(***************************************************************************)
(* Claims about the optimiser                                              *)
(***************************************************************************)
\* C4 as stated: for any expected returns, covariance matrix, risk-free rate
\* and bounds with lower <= upper, the vector max_sharpe_ratio returns sums
\* to 1, and with lower >= 0 every returned weight is >= 0.
C4_SharpeWeightsSumToOne ==
    op_pc = "sharpe_returned" =>
        /\ QSum(sharpe_weights) = One
        /\ QGe(op_args.bounds[1], Zero) => AllNonNeg(sharpe_weights)

\* C24: max_sharpe_ratio does not guarantee bound satisfaction.  The clipped
\* weights lie in [lower, upper]; the renormalisation divides them by their
\* total T, so for a finite T > 0 every returned weight lies in
\* [lower / T, upper / T], and these scaled bounds are all the function
\* guarantees: a returned weight is above upper for some inputs with T < 1.
ClippedTotal ==
    QSum(clipped_weights(op_args.expected_returns, op_args.cov_matrix,
                         op_args.risk_free_rate, op_args.bounds))

C24_ScaledBoundsOnly ==
    op_pc = "sharpe_returned" =>
        LET total == ClippedTotal
        IN  (IsFinite(total) /\ QLt(Zero, total))
                => \A i \in 1..Len(sharpe_weights) :
                       /\ QLe(QDiv(op_args.bounds[1], total), sharpe_weights[i])
                       /\ QLe(sharpe_weights[i], QDiv(op_args.bounds[2], total))

\* the upper bound is 1/2, both clipped weights are within it and sum to
\* less than 1, and a returned weight is above 1/2
C24_Witness ==
    /\ op_pc = "sharpe_returned"
    /\ Len(sharpe_weights) = 2
    /\ op_args.bounds[2] = Q(1, 2)
    /\ QLt(Zero, ClippedTotal)
    /\ QLt(ClippedTotal, One)
    /\ \E i \in 1..2 : /\ IsFinite(sharpe_weights[i])
                        /\ QLt(op_args.bounds[2], sharpe_weights[i])

\* C5 as stated: random_portfolios returns exactly num_portfolios entries,
\* each with weights that are all >= 0 and sum to 1, whatever is drawn.
C5_RandomPortfoliosValid ==
    op_pc = "rp_returned" =>
        /\ Len(portfolios) = op_args.num_portfolios
        /\ \A k \in 1..Len(portfolios) : ValidWeights(portfolios[k].weights)


(***************************************************************************)
(* domain/portfolio/monte_carlo.py                                         *)
(***************************************************************************)
IsSquare(k) == \E r \in 0..k : r * r = k
ISqrt(k) == CHOOSE r \in 0..k : r * r = k
\* a rational whose square root is rational
QIsSquare(x) == IsFinite(x) /\ x.n >= 0 /\ IsSquare(x.n) /\ IsSquare(x.d)
\* sqrt: NaN for a negative or NaN argument
QRoot(x) ==
    IF IsNaN(x) \/ QLt(x, Zero) THEN NaN
    ELSE IF x.d = 0 THEN x
    ELSE Q(ISqrt(x.n), ISqrt(x.d))

\* the second pivot of the factorisation of a 2x2 matrix
SecondPivot(m) ==
    LET l21 == QDiv(m[2][1], QRoot(m[1][1]))
    IN  QSub(m[2][2], QMul(l21, l21))

\* mutant: only the first pivot is tested
cholesky_first_pivot(m) ==
    IF ~QLt(Zero, m[1][1])
    THEN [ok |-> FALSE]
    ELSE IF Len(m) = 1
    THEN [ok |-> TRUE, L |-> <<<<QRoot(m[1][1])>>>>]
    ELSE LET l11 == QRoot(m[1][1])
             l21 == QDiv(m[2][1], l11)
         IN  [ok |-> TRUE, L |-> <<<<l11, Zero>>, <<l21, QRoot(SecondPivot(m))>>>>]

\* np.linalg.cholesky of a 1x1 or 2x2 matrix: the lower factor, read from the
\* lower triangle; LinAlgError (ok = FALSE) at the first pivot that is not > 0
cholesky(m) ==
    IF ~QLt(Zero, m[1][1])
    THEN [ok |-> FALSE]
    ELSE IF Len(m) = 1
    THEN [ok |-> TRUE, L |-> <<<<QRoot(m[1][1])>>>>]
    ELSE LET l11 == QRoot(m[1][1])
             l21 == QDiv(m[2][1], l11)
             d == SecondPivot(m)
         IN  IF ~QLt(Zero, d)
             THEN [ok |-> FALSE]
             ELSE [ok |-> TRUE, L |-> <<<<l11, Zero>>, <<l21, QRoot(d)>>>>]

\* the matrices whose factorisation stays rational (or fails)
RationalCholesky(m) ==
    QLt(Zero, m[1][1]) =>
        /\ QIsSquare(m[1][1])
        /\ Len(m) = 2 /\ QLt(Zero, SecondPivot(m)) => QIsSquare(SecondPivot(m))

\* a slot of np.empty that has not been written
Garbage == [uninitialised |-> TRUE]

\* mutant: the result array sized by the horizon
np_empty_horizon(args) == [i \in 1..args.horizon |-> Garbage]

\* final_returns = np.empty(num_simulations)
np_empty(args) == [i \in 1..args.num_simulations |-> Garbage]

RECURSIVE ProdOnePlus(_, _)
\* np.prod(1.0 + series) over the first k entries
ProdOnePlus(series, k) ==
    IF k = 0 THEN One ELSE QMul(ProdOnePlus(series, k - 1), QAdd(One, series[k]))

\* mu + L z for one period's innovations z (a row of z @ chol.T, plus the drift)
CorrelatedRow(expected_returns, L, z) == VecAdd(expected_returns, MatVec(L, z))

\* the loop body of simulate_portfolio_returns for the drawn innovations z
\* (horizon rows of n_assets standard normals)
CumulativeReturn(args, L, z) ==
    LET port_ret_series == [t \in 1..args.horizon |->
            Dot(CorrelatedRow(args.expected_returns, L, z[t]), args.weights)]
    IN  QSub(ProdOnePlus(port_ret_series, args.horizon), One)

\* the values a standard normal draw takes in the model
Normals == {Q(-1, 1), Q(1, 1)}
NormalRows(h, n) == [1..h -> [1..n -> Normals]]

SimWeights(n) == IF n = 1 THEN {<<One>>} ELSE {<<Q(1, 2), Q(1, 2)>>, <<One, Zero>>}
SimReturns(n) == [1..n -> {Zero, Q(1, 10)}]
SimCovMatrices(n) ==
    {m \in (IF n = 1
            THEN {<<<<Q(a, 1)>>>> : a \in -1..1}
            ELSE {<<<<Q(a, 1), Q(b, 1)>>, <<Q(b, 1), Q(c, 1)>>>> :
                      a \in 0..1, b \in -1..1, c \in 0..2}) : RationalCholesky(m)}
\* horizon and num_simulations within the draw budget
SimSizes(n) == {hs \in (0..MaxDraws) \X (0..MaxDraws) : hs[1] * hs[2] * n <= MaxDraws}

SimArgs(fn) ==
    UNION {{[fn |-> fn, weights |-> w, expected_returns |-> er, cov_matrix |-> cov,
             horizon |-> hs[1], num_simulations |-> hs[2]] :
                w \in SimWeights(n), er \in SimReturns(n),
                cov \in SimCovMatrices(n), hs \in SimSizes(n)} : n \in 1..2}

NoResult == [none |-> TRUE]

InitSimulation ==
    /\ sim_pc = "idle"
    /\ sim_args = NoArgs
    /\ chol = <<>>
    /\ final_returns = <<>>
    /\ sim_i = 0
    /\ draws_made = 0
    /\ sim_result = NoResult
    /\ prev_result = NoResult
    /\ sim_calls = 0

\* simulate_portfolio_returns up to the loop
PortfolioReturnsPrologue(args) ==
    /\ sim_args' = args
    /\ draws_made' = 0
    /\ sim_i' = 0
    /\ LET c == cholesky(args.cov_matrix)
       IN  IF c.ok
           THEN /\ chol' = c.L
                /\ final_returns' = np_empty(args)
                /\ sim_pc' = "loop"
           ELSE /\ chol' = <<>>
                /\ final_returns' = <<>>
                /\ sim_pc' = "raised"

\* the whole of simulate_asset_paths
AssetPathsBody(args) ==
    /\ sim_args' = args
    /\ sim_i' = 0
    /\ final_returns' = <<>>
    /\ LET c == cholesky(args.cov_matrix)
           n == Len(args.expected_returns)
       IN  IF c.ok
           THEN /\ chol' = c.L
                /\ \E paths \in [1..args.num_simulations -> NormalRows(args.horizon, n)] :
                     sim_result' = [s \in 1..args.num_simulations |->
                                      [t \in 1..args.horizon |->
                                         CorrelatedRow(args.expected_returns, c.L, paths[s][t])]]
                /\ draws_made' = args.num_simulations * args.horizon * n
                /\ sim_pc' = "returned"
           ELSE /\ chol' = <<>>
                /\ sim_result' = NoResult
                /\ draws_made' = 0
                /\ sim_pc' = "raised"

SimulatePortfolioReturnsCall ==
    /\ sim_pc = "idle"
    /\ \E args \in SimArgs("simulate_portfolio_returns") : PortfolioReturnsPrologue(args)
    /\ sim_calls' = 1
    /\ UNCHANGED <<sim_result, prev_result, rbVars, opVars, bondVars, riskVars, sanVars, paVars, batchVars, rlVars, cacheVars>>

\* one iteration of the loop: draw z, build the path, compound, store
SimulatePortfolioReturnsIter ==
    /\ sim_pc = "loop"
    /\ sim_i < sim_args.num_simulations
    /\ \E z \in NormalRows(sim_args.horizon, Len(sim_args.weights)) :
         final_returns' = [final_returns EXCEPT ![sim_i + 1] = CumulativeReturn(sim_args, chol, z)]
    /\ draws_made' = draws_made + sim_args.horizon * Len(sim_args.weights)
    /\ sim_i' = sim_i + 1
    /\ UNCHANGED <<sim_pc, sim_args, chol, sim_result, prev_result, sim_calls, rbVars, opVars,
                   bondVars, riskVars, sanVars, paVars, batchVars, rlVars, cacheVars>>

SimulatePortfolioReturnsReturn ==
    /\ sim_pc = "loop"
    /\ sim_i >= sim_args.num_simulations
    /\ sim_result' = final_returns
    /\ sim_pc' = "returned"
    /\ UNCHANGED <<sim_args, chol, final_returns, sim_i, draws_made, prev_result, sim_calls,
                   rbVars, opVars, bondVars, riskVars, sanVars, paVars, batchVars, rlVars, cacheVars>>

SimulateAssetPathsCall ==
    /\ sim_pc = "idle"
    /\ \E args \in SimArgs("simulate_asset_paths") : AssetPathsBody(args)
    /\ sim_calls' = 1
    /\ UNCHANGED <<prev_result, rbVars, opVars, bondVars, riskVars, sanVars, paVars, batchVars, rlVars, cacheVars>>

\* the caller repeats the call with the same arguments
SimulatePortfolioReturnsAgain ==
    /\ sim_pc = "returned"
    /\ sim_calls = 1
    /\ sim_args.fn = "simulate_portfolio_returns"
    /\ PortfolioReturnsPrologue(sim_args)
    /\ prev_result' = sim_result
    /\ sim_result' = NoResult
    /\ sim_calls' = 2
    /\ UNCHANGED <<rbVars, opVars, bondVars, riskVars, sanVars, paVars, batchVars, rlVars, cacheVars>>

SimulateAssetPathsAgain ==
    /\ sim_pc = "returned"
    /\ sim_calls = 1
    /\ sim_args.fn = "simulate_asset_paths"
    /\ AssetPathsBody(sim_args)
    /\ prev_result' = sim_result
    /\ sim_calls' = 2
    /\ UNCHANGED <<rbVars, opVars, bondVars, riskVars, sanVars, paVars, batchVars, rlVars, cacheVars>>

NextSimulation ==
    \/ SimulatePortfolioReturnsCall
    \/ SimulatePortfolioReturnsIter
    \/ SimulatePortfolioReturnsReturn
    \/ SimulateAssetPathsCall
    \/ SimulatePortfolioReturnsAgain
    \/ SimulateAssetPathsAgain

(***************************************************************************)
(* Claims about the simulation routines                                    *)
(***************************************************************************)
IsPortfolioReturns == sim_args.fn = "simulate_portfolio_returns"
IsAssetPaths == sim_args.fn = "simulate_asset_paths"

\* positive semi-definite, by the principal minors of a symmetric 1x1 or 2x2 matrix
IsPSD(m) ==
    IF Len(m) = 1
    THEN QGe(m[1][1], Zero)
    ELSE /\ m[1][2] = m[2][1]
         /\ QGe(m[1][1], Zero)
         /\ QGe(m[2][2], Zero)
         /\ QGe(QSub(QMul(m[1][1], m[2][2]), QMul(m[1][2], m[2][1])), Zero)

IsZeroMatrix(m) == \A i \in 1..Len(m) : \A j \in 1..Len(m[i]) : m[i][j] = Zero

RECURSIVE QPow(_, _)
QPow(x, k) == IF k = 0 THEN One ELSE QMul(QPow(x, k - 1), x)

\* (1 + weights . expected_returns)^horizon - 1
DeterministicReturn(args) ==
    QSub(QPow(QAdd(One, Dot(args.weights, args.expected_returns)), args.horizon), One)

\* C6: simulate_portfolio_returns returns exactly num_simulations samples,
\* one per simulated path, whatever the horizon and the number of assets.
C6_SampleCount ==
    (sim_pc = "returned" /\ IsPortfolioReturns) =>
        /\ Len(sim_result) = sim_args.num_simulations
        /\ \A k \in 1..Len(sim_result) : sim_result[k] # Garbage

\* C6 witness: a return of several samples, more than the horizon, for two assets
C6_Witness ==
    /\ sim_pc = "returned"
    /\ IsPortfolioReturns
    /\ Len(sim_args.weights) = 2
    /\ sim_args.num_simulations > sim_args.horizon
    /\ sim_args.horizon > 0
    /\ Len(sim_result) = sim_args.num_simulations

\* C7 as stated: with a zero covariance matrix simulate_portfolio_returns
\* succeeds and every sample is (1 + weights . expected_returns)^horizon - 1.
C7_ZeroCovDeterministic ==
    (IsPortfolioReturns /\ IsZeroMatrix(sim_args.cov_matrix) /\ sim_pc \in {"raised", "returned"}) =>
        /\ sim_pc = "returned"
        /\ \A k \in 1..Len(sim_result) : sim_result[k] = DeterministicReturn(sim_args)

\* C8: with a covariance matrix that is not positive semi-definite both
\* routines fail before any random number is drawn and return nothing.
C8_NonPSDRaises ==
    (sim_pc # "idle" /\ ~IsPSD(sim_args.cov_matrix)) =>
        /\ sim_pc = "raised"
        /\ draws_made = 0
        /\ sim_result = NoResult

\* C8 witness: a 2x2 matrix with a positive first pivot and a negative
\* determinant was refused
C8_Witness ==
    /\ sim_pc = "raised"
    /\ Len(sim_args.cov_matrix) = 2
    /\ QLt(Zero, sim_args.cov_matrix[1][1])
    /\ ~IsPSD(sim_args.cov_matrix)
    /\ sim_args.num_simulations > 0
    /\ sim_args.horizon > 0
    /\ draws_made = 0

\* C9 as stated: two invocations with identical inputs (and the same seed)
\* return identical outputs.
C9_RepeatableOutput ==
    (sim_pc = "returned" /\ sim_calls = 2) => sim_result = prev_result


(***************************************************************************)
(* domain/fixed_income/duration.py                                         *)
(***************************************************************************)
\* the 365.0 of the year fraction
DaysPerYear == 365

\* Python's round() of the fraction a/b (b > 0): to nearest, ties to even
RoundHalfEven(a, b) ==
    LET f == a \div b
        r == a - f * b
    IN  IF 2 * r < b THEN f
        ELSE IF 2 * r > b THEN f + 1
        ELSE IF f % 2 = 0 THEN f ELSE f + 1

IMax(a, b) == IF a >= b THEN a ELSE b

\* the period count without the floor of 1
TotalPeriodsUnfloored(bond, day) ==
    LET days == IMax(bond.maturity_date - day, 0)
    IN  RoundHalfEven(days * bond.coupon_frequency, DaysPerYear)

\* max(int(round(max((maturity_date - today).days / 365.0, 0.0) * n)), 1),
\* with today the value date.today() returned
TotalPeriods(bond, day) ==
    LET days == IMax(bond.maturity_date - day, 0)
    IN  IMax(RoundHalfEven(days * bond.coupon_frequency, DaysPerYear), 1)

ZeroDivisionError == [error |-> "ZeroDivisionError"]
IsError(x) == "error" \in DOMAIN x

\* 1 + y, the per-period discount base
DiscountBase(bond, yield_to_maturity) ==
    QAdd(One, QDiv(yield_to_maturity, Q(bond.coupon_frequency, 1)))

\* the float divisions of Python raise where numpy would give inf or NaN
Raises(bond, yield_to_maturity) ==
    \/ bond.coupon_frequency = 0
    \/ DiscountBase(bond, yield_to_maturity) = Zero

PeriodCoupon(bond) ==
    QDiv(QMul(bond.coupon_rate, bond.face_value), Q(bond.coupon_frequency, 1))

RECURSIVE SumCashFlows(_, _, _, _)
\* sum(weight(t) * coupon / pow(1 + y, t + shift) for t in range(1, k + 1)),
\* the weight being 1 (kind "pv"), t ("duration") or t (t + 1) ("convexity")
SumCashFlows(kind, coupon, base, k) ==
    IF k = 0 THEN Zero
    ELSE LET w == IF kind = "pv" THEN 1 ELSE IF kind = "duration" THEN k ELSE k * (k + 1)
             e == IF kind = "convexity" THEN k + 2 ELSE k
         IN  QAdd(SumCashFlows(kind, coupon, base, k - 1),
                  QDiv(QMul(Q(w, 1), coupon), QPow(base, e)))

\* price with the annual coupon paid every period (coupon not divided by n)
price_annual_coupon(bond, yield_to_maturity, day) ==
    IF Raises(bond, yield_to_maturity) THEN ZeroDivisionError
    ELSE LET total_periods == TotalPeriods(bond, day)
             base == DiscountBase(bond, yield_to_maturity)
             pv_coupons == SumCashFlows("pv", QMul(bond.coupon_rate, bond.face_value),
                                        base, total_periods)
             pv_face == QDiv(bond.face_value, QPow(base, total_periods))
         IN  QAdd(pv_coupons, pv_face)

\* price(bond, yield_to_maturity) when date.today() returns day
price(bond, yield_to_maturity, day) ==
    IF Raises(bond, yield_to_maturity) THEN ZeroDivisionError
    ELSE LET total_periods == TotalPeriods(bond, day)
             base == DiscountBase(bond, yield_to_maturity)
             pv_coupons == SumCashFlows("pv", PeriodCoupon(bond), base, total_periods)
             pv_face == QDiv(bond.face_value, QPow(base, total_periods))
         IN  QAdd(pv_coupons, pv_face)

macaulay_duration(bond, yield_to_maturity, day) ==
    LET price_val == price(bond, yield_to_maturity, day)
    IN  IF IsError(price_val) THEN price_val
        ELSE LET total_periods == TotalPeriods(bond, day)
                 base == DiscountBase(bond, yield_to_maturity)
                 duration ==
                    QAdd(SumCashFlows("duration", PeriodCoupon(bond), base, total_periods),
                         QDiv(QMul(Q(total_periods, 1), bond.face_value),
                              QPow(base, total_periods)))
             IN  IF price_val # Zero THEN QDiv(duration, price_val) ELSE Zero

\* modified duration discounted by the annual yield, 1 + yield_to_maturity
modified_duration_annual(bond, yield_to_maturity, day) ==
    LET macaulay == macaulay_duration(bond, yield_to_maturity, day)
    IN  IF IsError(macaulay) THEN macaulay
        ELSE IF QAdd(One, yield_to_maturity) = Zero THEN ZeroDivisionError
        ELSE QDiv(macaulay, QAdd(One, yield_to_maturity))

modified_duration(bond, yield_to_maturity, day) ==
    LET macaulay == macaulay_duration(bond, yield_to_maturity, day)
    IN  IF IsError(macaulay) THEN macaulay
        ELSE QDiv(macaulay, DiscountBase(bond, yield_to_maturity))

convexity(bond, yield_to_maturity, day) ==
    LET price_val == price(bond, yield_to_maturity, day)
    IN  IF IsError(price_val) THEN price_val
        ELSE LET total_periods == TotalPeriods(bond, day)
                 base == DiscountBase(bond, yield_to_maturity)
                 conv ==
                    QAdd(SumCashFlows("convexity", PeriodCoupon(bond), base, total_periods),
                         QDiv(QMul(Q(total_periods * (total_periods + 1), 1), bond.face_value),
                              QPow(base, total_periods + 2)))
             IN  IF price_val # Zero THEN QDiv(conv, price_val) ELSE Zero

BondFunctions == {"price", "macaulay_duration", "modified_duration", "convexity"}

\* the call fn(bond, yield_to_maturity) made on the given day
BondCallResult(args, day) ==
    IF args.fn = "price" THEN price(args.bond, args.yield_to_maturity, day)
    ELSE IF args.fn = "macaulay_duration"
    THEN macaulay_duration(args.bond, args.yield_to_maturity, day)
    ELSE IF args.fn = "modified_duration"
    THEN modified_duration(args.bond, args.yield_to_maturity, day)
    ELSE convexity(args.bond, args.yield_to_maturity, day)

Bonds ==
    [coupon_rate : {Zero, Q(1, 2), One},
     coupon_frequency : -1..2,
     maturity_date : {k * DaysPerYear : k \in 0..MaxYears},
     face_value : {One, Q(100, 1)}]
Yields == {Q(-2, 1), Zero, Q(1, 2), One}

InitBond ==
    /\ today = 0
    /\ bond_args = NoArgs
    /\ bond_result = NoResult
    /\ bond_prev = NoResult
    /\ bond_calls = 0
    /\ bond_day = 0

\* the system clock moves on
Tick ==
    /\ today < ClockStep * MaxTicks
    /\ today' = today + ClockStep
    /\ UNCHANGED <<bond_args, bond_result, bond_prev, bond_calls, bond_day, rbVars, opVars, simVars, riskVars, sanVars, paVars, batchVars, rlVars, cacheVars>>

BondCall ==
    /\ bond_calls = 0
    /\ \E fn \in BondFunctions, b \in Bonds, ytm \in Yields :
         LET args == [fn |-> fn, bond |-> b, yield_to_maturity |-> ytm]
         IN  /\ bond_args' = args
             /\ bond_result' = BondCallResult(args, today)
    /\ bond_calls' = 1
    /\ bond_day' = today
    /\ UNCHANGED <<today, bond_prev, rbVars, opVars, simVars, riskVars, sanVars, paVars, batchVars, rlVars, cacheVars>>

\* the caller repeats the call with the same bond and yield
BondCallAgain ==
    /\ bond_calls = 1
    /\ bond_prev' = bond_result
    /\ bond_result' = BondCallResult(bond_args, today)
    /\ bond_calls' = 2
    /\ bond_day' = today
    /\ UNCHANGED <<today, bond_args, rbVars, opVars, simVars, riskVars, sanVars, paVars, batchVars, rlVars, cacheVars>>

NextBond == Tick \/ BondCall \/ BondCallAgain

(***************************************************************************)
(* Claims about bond pricing                                               *)
(***************************************************************************)
\* C10 as stated: for a fixed bond and yield, price, macaulay_duration and
\* convexity return the same value whatever the system clock reads when they
\* are called: two calls on different days give identical results.
C10_ClockIndependent ==
    (bond_calls = 2 /\ bond_args.fn \in {"price", "macaulay_duration", "convexity"})
        => bond_result = bond_prev

\* a call of fn has returned (or raised)
BondCalled(fn) == bond_calls >= 1 /\ bond_args.fn = fn

\* C11: a bond with coupon_rate >= 0, coupon_frequency >= 1 and
\* face_value > 0, priced at a yield equal to its coupon rate, has price
\* exactly face_value, whatever whole number >= 1 of coupon periods remains.
C11_ParBond ==
    (/\ BondCalled("price")
     /\ bond_args.bond.coupon_frequency >= 1
     /\ QGe(bond_args.bond.coupon_rate, Zero)
     /\ QLt(Zero, bond_args.bond.face_value)
     /\ bond_args.yield_to_maturity = bond_args.bond.coupon_rate)
        => bond_result = bond_args.bond.face_value

\* a semi-annual bond with a positive coupon and several periods left was
\* priced at par
C11_Witness ==
    /\ BondCalled("price")
    /\ bond_args.bond.coupon_frequency = 2
    /\ QLt(Zero, bond_args.bond.coupon_rate)
    /\ bond_args.yield_to_maturity = bond_args.bond.coupon_rate
    /\ TotalPeriods(bond_args.bond, bond_day) >= 3
    /\ bond_result = bond_args.bond.face_value

\* C12: for every bond with coupon_frequency >= 1 and every yield,
\* modified_duration returns macaulay_duration of the same valuation date
\* divided by 1 + yield / coupon_frequency; where macaulay_duration raises,
\* modified_duration raises the same error.
C12_ModifiedFromMacaulay ==
    (BondCalled("modified_duration") /\ bond_args.bond.coupon_frequency >= 1)
        => LET macaulay == macaulay_duration(bond_args.bond, bond_args.yield_to_maturity,
                                             bond_day)
               n == Q(bond_args.bond.coupon_frequency, 1)
           IN  IF IsError(macaulay) THEN bond_result = macaulay
               ELSE /\ ~IsError(bond_result)
                    /\ QMul(bond_result, QAdd(One, QDiv(bond_args.yield_to_maturity, n)))
                         = macaulay

\* modified duration of a semi-annual coupon bond at a positive yield, after
\* the clock has moved
C12_Witness ==
    /\ BondCalled("modified_duration")
    /\ bond_args.bond.coupon_frequency = 2
    /\ QLt(Zero, bond_args.yield_to_maturity)
    /\ QLt(Zero, bond_args.bond.coupon_rate)
    /\ bond_day > 0
    /\ ~IsError(bond_result)
    /\ QLt(Zero, bond_result)

\* C13 as stated: whenever the price is zero or negative, macaulay_duration
\* and convexity return 0 instead of dividing by the price.
C13_NonPositivePriceGuard ==
    LET price_val == price(bond_args.bond, bond_args.yield_to_maturity, bond_day)
    IN  (/\ BondCalled("macaulay_duration") \/ BondCalled("convexity")
         /\ ~IsError(price_val)
         /\ QLe(price_val, Zero))
            => bond_result = Zero

ValidationError == [error |-> "ValidationError"]

\* C14 as stated: a bond with non-positive coupon_frequency is rejected
\* with a validation error: no call of price, macaulay_duration or convexity
\* on it returns a numeric result.
C14_NonPositiveFrequencyRejected ==
    (/\ bond_calls >= 1
     /\ bond_args.fn \in {"price", "macaulay_duration", "convexity"}
     /\ bond_args.bond.coupon_frequency <= 0)
        => bond_result = ValidationError

\* C25: the period count is never less than 1: for a bond whose
\* maturity_date is at or before the valuation date, price is the single
\* terminal cash flow (coupon + face_value) / (1 + ytm / coupon_frequency),
\* and macaulay_duration and convexity are computed over that same single
\* period (duration 1 period, convexity 2 / (1 + y)^2, unless the price is 0).
C25_TerminalCashFlow ==
    (/\ bond_calls >= 1
     /\ bond_args.bond.maturity_date <= bond_day
     /\ ~Raises(bond_args.bond, bond_args.yield_to_maturity))
        => LET bond == bond_args.bond
               base == DiscountBase(bond, bond_args.yield_to_maturity)
               terminal == QDiv(QAdd(PeriodCoupon(bond), bond.face_value), base)
           IN  /\ bond_args.fn = "price" => bond_result = terminal
               /\ bond_args.fn = "macaulay_duration"
                    => bond_result = (IF terminal # Zero THEN One ELSE Zero)
               /\ bond_args.fn = "convexity"
                    => bond_result =
                         (IF terminal # Zero THEN QDiv(Q(2, 1), QPow(base, 2)) ELSE Zero)

\* the duration of a coupon bond past its maturity date
C25_Witness ==
    /\ BondCalled("macaulay_duration")
    /\ bond_args.bond.maturity_date < bond_day
    /\ bond_args.bond.coupon_frequency = 2
    /\ QLt(Zero, bond_args.bond.coupon_rate)
    /\ bond_result = One

(***************************************************************************)
(* Python values that cross the function boundaries below                  *)
(***************************************************************************)
PyNone == [t |-> "NoneType"]
PyInt(k) == [t |-> "int", i |-> k]
PyFloat(q) == [t |-> "float", v |-> q]

(***************************************************************************)
(* domain/risk: var.py, drawdown.py and correlation.py, as section 4.2 of  *)
(* the specification describes them                                        *)
(***************************************************************************)
\* bounds of the return series
MaxSeriesLen == 3
SeriesMax == 2
ConfDen == 4
MaxSims == 2
MaxCorrSeries == 2
CorrLen == 3

IMin(a, b) == IF a <= b THEN a ELSE b

\* floor of a finite number
QFloor(x) == x.n \div x.d

RECURSIVE Insert(_, _)
Insert(x, s) ==
    IF s = <<>> THEN <<x>>
    ELSE IF QLe(x, Head(s)) THEN <<x>> \o s
    ELSE <<Head(s)>> \o Insert(x, Tail(s))

RECURSIVE SortAscending(_)
SortAscending(s) ==
    IF s = <<>> THEN <<>> ELSE Insert(Head(s), SortAscending(Tail(s)))

\* max(0, x): x when it is greater than 0, else 0
ClipNonNeg(x) == IF QLt(Zero, x) THEN x ELSE Zero

\* the negated value at the rank, not clipped
historical_var_unclipped(returns, confidence) ==
    IF Len(returns) = 0 THEN ValidationError
    ELSE LET n == Len(returns)
             k == QFloor(QMul(QSub(One, confidence), Q(n, 1)))
             rank == IMax(0, IMin(k, n - 1))
         IN  QNeg(SortAscending(returns)[rank + 1])

\* sort ascending; k = floor((1 - confidence) * n); the negated value at rank
\* k clamped to [0, n - 1], clipped to >= 0
historical_var(returns, confidence) ==
    IF Len(returns) = 0 THEN ValidationError
    ELSE LET n == Len(returns)
             k == QFloor(QMul(QSub(One, confidence), Q(n, 1)))
             rank == IMax(0, IMin(k, n - 1))
         IN  ClipNonNeg(QNeg(SortAscending(returns)[rank + 1]))

Mean(returns) == QDiv(QSum(returns), Q(Len(returns), 1))

\* sum of (x - mean(x)) * (y - mean(y))
SumProducts(x, y) ==
    LET mx == Mean(x)
        my == Mean(y)
    IN  QSum([i \in 1..Len(x) |-> QMul(QSub(x[i], mx), QSub(y[i], my))])

\* the sample variance (n - 1 in the denominator): NaN for a single return
SampleVariance(returns) ==
    QDiv(SumProducts(returns, returns), Q(Len(returns) - 1, 1))

SampleStd(returns) == QRoot(SampleVariance(returns))

\* the standard-normal quantile of p: only its sign is modelled, every
\* magnitude on a small grid is a possible value
NormPpf(p) ==
    IF QLt(p, Q(1, 2)) THEN {Q(-2, 1), Q(-1, 2)}
    ELSE IF p = Q(1, 2) THEN {Zero}
    ELSE {Q(1, 2), Q(2, 1)}

\* max(0, -(mean + z * std)), z the quantile of 1 - confidence
parametric_var(returns, confidence, z) ==
    IF Len(returns) = 0 THEN ValidationError
    ELSE ClipNonNeg(QNeg(QAdd(Mean(returns), QMul(z, SampleStd(returns)))))

\* the synthetic returns mean + std * normal for the standard-normal draws,
\* then the historical rule
monte_carlo_var(returns, confidence, normals) ==
    IF Len(returns) = 0 THEN ValidationError
    ELSE LET mean == Mean(returns)
             std == SampleStd(returns)
             synthetic == [i \in 1..Len(normals) |-> QAdd(mean, QMul(std, normals[i]))]
         IN  historical_var(synthetic, confidence)

RECURSIVE Wealth(_, _)
\* the wealth index: 1.0 at position 0, wealth_t = wealth_{t-1} * (1 + r_t)
Wealth(returns, t) ==
    IF t = 0 THEN One ELSE QMul(Wealth(returns, t - 1), QAdd(One, returns[t]))

RECURSIVE Peak(_, _)
\* the running maximum of the wealth index up to position t
Peak(returns, t) ==
    IF t = 0 THEN One ELSE QMax(Peak(returns, t - 1), Wealth(returns, t))

\* (wealth_t - peak_t) / peak_t
Drawdown(returns, t) ==
    QDiv(QSub(Wealth(returns, t), Peak(returns, t)), Peak(returns, t))

\* the trough of the worst episode: the first position of the minimum
Trough(returns) ==
    CHOOSE t \in 0..Len(returns) :
        /\ \A u \in 0..Len(returns) : QLe(Drawdown(returns, t), Drawdown(returns, u))
        /\ \A u \in 0..(t - 1) : Drawdown(returns, u) # Drawdown(returns, t)

\* the peak the worst episode fell from: the last position up to the trough
\* where wealth stood at the running maximum
PeakBefore(returns, trough) ==
    CHOOSE s \in 0..trough :
        /\ Wealth(returns, s) = Peak(returns, trough)
        /\ \A u \in (s + 1)..trough : Wealth(returns, u) # Peak(returns, trough)

\* positions after the trough where wealth is back at or above the peak
Recovered(returns, trough) ==
    {u \in (trough + 1)..Len(returns) : QGe(Wealth(returns, u), Peak(returns, trough))}

SetMin(S) == CHOOSE x \in S : \A y \in S : x <= y
SetMax(S) == CHOOSE x \in S : \A y \in S : x >= y

\* max_drawdown measuring the fall as (peak - wealth) / peak
max_drawdown_unsigned(returns) ==
    IF Len(returns) = 0 THEN ValidationError
    ELSE LET trough == Trough(returns)
             recovered == Recovered(returns, trough)
         IN  [max_drawdown |-> QNeg(Drawdown(returns, trough)),
              start |-> PyInt(PeakBefore(returns, trough)),
              end |-> PyInt(trough),
              recovery |-> IF recovered = {} THEN PyNone ELSE PyInt(SetMin(recovered))]

\* max_drawdown reporting the last position at or above the peak
max_drawdown_last_recovery(returns) ==
    IF Len(returns) = 0 THEN ValidationError
    ELSE LET trough == Trough(returns)
             recovered == Recovered(returns, trough)
         IN  [max_drawdown |-> Drawdown(returns, trough),
              start |-> PyInt(PeakBefore(returns, trough)),
              end |-> PyInt(trough),
              recovery |-> IF recovered = {} THEN PyNone ELSE PyInt(SetMax(recovered))]

\* the minimum drawdown, the peak that started the worst episode, its
\* trough, and the first later position back at or above that peak (or None)
max_drawdown(returns) ==
    IF Len(returns) = 0 THEN ValidationError
    ELSE LET trough == Trough(returns)
             recovered == Recovered(returns, trough)
         IN  [max_drawdown |-> Drawdown(returns, trough),
              start |-> PyInt(PeakBefore(returns, trough)),
              end |-> PyInt(trough),
              recovery |-> IF recovered = {} THEN PyNone ELSE PyInt(SetMin(recovered))]

\* the Pearson correlation of two rows; missing when either has zero variance
Pearson(x, y) ==
    LET sxx == SumProducts(x, x)
        syy == SumProducts(y, y)
    IN  IF sxx = Zero \/ syy = Zero THEN PyNone
        ELSE QDiv(SumProducts(x, y), QRoot(QMul(sxx, syy)))

\* correlation_matrix with the diagonal computed like every other entry
correlation_matrix_computed_diagonal(series_matrix) ==
    IF Len(series_matrix) = 0 THEN ValidationError
    ELSE [i \in 1..Len(series_matrix) |->
            [j \in 1..Len(series_matrix) |-> Pearson(series_matrix[i], series_matrix[j])]]

\* Pearson correlation between every pair of rows, the diagonal forced to 1.0
correlation_matrix(series_matrix) ==
    IF Len(series_matrix) = 0 THEN ValidationError
    ELSE [i \in 1..Len(series_matrix) |->
            [j \in 1..Len(series_matrix) |->
                IF i = j THEN One
                ELSE Pearson(series_matrix[i], series_matrix[j])]]

ReturnValues == {Q(k, 1) : k \in -SeriesMax..SeriesMax}
ReturnSeries == UNION {[1..len -> ReturnValues] : len \in 0..MaxSeriesLen}
\* the series whose sample standard deviation is a rational number
StdSeries == {r \in ReturnSeries : Len(r) <= 1 \/ QIsSquare(SampleVariance(r))}
Confidences == {Q(k, ConfDen) : k \in 1..(ConfDen - 1)}
\* the draws of a call with num_simulations = MaxSims
NormalDraws == [1..MaxSims -> Normals]

ZeroVariance(x) == SumProducts(x, x) = Zero

\* every correlation that is defined is a rational number
RationalCorrelation(m) ==
    \A i, j \in 1..Len(m) :
        (~ZeroVariance(m[i]) /\ ~ZeroVariance(m[j]))
            => QIsSquare(QMul(SumProducts(m[i], m[i]), SumProducts(m[j], m[j])))

SeriesMatrices ==
    {m \in UNION {[1..k -> [1..len -> {Q(-1, 1), One}]] :
                    k \in 1..MaxCorrSeries, len \in 1..CorrLen} :
        RationalCorrelation(m)}

InitRisk ==
    /\ risk_args = NoArgs
    /\ risk_result = NoResult

HistoricalVar ==
    /\ risk_args = NoArgs
    /\ \E r \in ReturnSeries, c \in Confidences :
         /\ risk_args' = [fn |-> "historical_var", returns |-> r, confidence |-> c]
         /\ risk_result' = historical_var(r, c)
    /\ UNCHANGED <<rbVars, opVars, simVars, bondVars, sanVars, paVars, batchVars, rlVars, cacheVars>>

ParametricVar ==
    /\ risk_args = NoArgs
    /\ \E r \in StdSeries, c \in Confidences :
         \E z \in NormPpf(QSub(One, c)) :
            /\ risk_args' = [fn |-> "parametric_var", returns |-> r, confidence |-> c]
            /\ risk_result' = parametric_var(r, c, z)
    /\ UNCHANGED <<rbVars, opVars, simVars, bondVars, sanVars, paVars, batchVars, rlVars, cacheVars>>

MonteCarloVar ==
    /\ risk_args = NoArgs
    /\ \E r \in StdSeries, c \in Confidences, normals \in NormalDraws :
         /\ risk_args' = [fn |-> "monte_carlo_var", returns |-> r, confidence |-> c,
                          num_simulations |-> Len(normals)]
         /\ risk_result' = monte_carlo_var(r, c, normals)
    /\ UNCHANGED <<rbVars, opVars, simVars, bondVars, sanVars, paVars, batchVars, rlVars, cacheVars>>

MaxDrawdown ==
    /\ risk_args = NoArgs
    /\ \E r \in ReturnSeries :
         /\ risk_args' = [fn |-> "max_drawdown", returns |-> r]
         /\ risk_result' = max_drawdown(r)
    /\ UNCHANGED <<rbVars, opVars, simVars, bondVars, sanVars, paVars, batchVars, rlVars, cacheVars>>

CorrelationMatrix ==
    /\ risk_args = NoArgs
    /\ \E m \in SeriesMatrices :
         /\ risk_args' = [fn |-> "correlation_matrix", series_matrix |-> m]
         /\ risk_result' = correlation_matrix(m)
    /\ UNCHANGED <<rbVars, opVars, simVars, bondVars, sanVars, paVars, batchVars, rlVars, cacheVars>>

NextRisk ==
    HistoricalVar \/ ParametricVar \/ MonteCarloVar \/ MaxDrawdown \/ CorrelationMatrix

(***************************************************************************)
(* Claims about the risk metrics                                           *)
(***************************************************************************)
\* C15: for every non-empty finite return series and every confidence in
\* (0, 1), historical_var, parametric_var and monte_carlo_var return a
\* value >= 0, also when every return of the series is positive.
C15_VaRNonNegative ==
    (/\ risk_args.fn \in {"historical_var", "parametric_var", "monte_carlo_var"}
     /\ Len(risk_args.returns) >= 1)
        => (~IsError(risk_result) /\ QGe(risk_result, Zero))

\* historical_var of a series of three positive returns that vary
C15_Witness ==
    /\ risk_args.fn = "historical_var"
    /\ Len(risk_args.returns) = 3
    /\ \A i \in 1..3 : QLt(Zero, risk_args.returns[i])
    /\ risk_args.returns[1] # risk_args.returns[2]
    /\ risk_result = Zero

\* the wealth index never falls below its running peak
NeverBelowPeak(returns) ==
    \A t \in 0..Len(returns) : QGe(Wealth(returns, t), Peak(returns, t))

\* C16: the first value max_drawdown returns is <= 0, and it is 0 exactly
\* when the compounded wealth index never falls below its running peak.
C16_DrawdownSign ==
    (risk_args.fn = "max_drawdown" /\ Len(risk_args.returns) >= 1)
        => /\ ~IsError(risk_result)
           /\ QLe(risk_result.max_drawdown, Zero)
           /\ (risk_result.max_drawdown = Zero) <=> NeverBelowPeak(risk_args.returns)

\* a series that rises and then falls below its peak
C16_Witness ==
    /\ risk_args.fn = "max_drawdown"
    /\ Len(risk_args.returns) >= 2
    /\ QLt(Zero, risk_args.returns[1])
    /\ QLt(risk_result.max_drawdown, Zero)
    /\ risk_result.start.i >= 1

\* C17: the peak marker is not after the trough marker; a reported recovery
\* marker is strictly after the trough and is the first later position where
\* wealth is back at or above the peak's; it is None exactly when wealth
\* never returns to that peak.
C17_MarkersOrdered ==
    (risk_args.fn = "max_drawdown" /\ Len(risk_args.returns) >= 1)
        => LET returns == risk_args.returns
               start == risk_result.start.i
               end == risk_result.end.i
               back(u) == QGe(Wealth(returns, u), Wealth(returns, start))
           IN  /\ start <= end
               /\ risk_result.recovery # PyNone
                    => /\ risk_result.recovery.i > end
                       /\ back(risk_result.recovery.i)
                       /\ \A u \in (end + 1)..(risk_result.recovery.i - 1) : ~back(u)
               /\ risk_result.recovery = PyNone
                    <=> \A u \in (end + 1)..Len(returns) : ~back(u)

\* a fall whose recovery takes more than one period
C17_Witness ==
    /\ risk_args.fn = "max_drawdown"
    /\ Len(risk_args.returns) >= 3
    /\ QLt(risk_result.max_drawdown, Zero)
    /\ risk_result.recovery # PyNone
    /\ risk_result.recovery.i >= risk_result.end.i + 2

\* C18: for k equal-length return series, correlation_matrix returns a k x k
\* symmetric matrix whose diagonal entries are all 1.0; the off-diagonal
\* entries of a zero-variance series are missing (None), and no entry is NaN.
C18_CorrelationShape ==
    (risk_args.fn = "correlation_matrix")
        => LET m == risk_args.series_matrix
               k == Len(m)
               r == risk_result
           IN  /\ Len(r) = k
               /\ \A i \in 1..k :
                    /\ Len(r[i]) = k
                    /\ r[i][i] = One
                    /\ \A j \in 1..k :
                         /\ r[i][j] = r[j][i]
                         /\ (i # j /\ (ZeroVariance(m[i]) \/ ZeroVariance(m[j])))
                              => r[i][j] = PyNone
                         /\ r[i][j] # PyNone => IsFinite(r[i][j])

\* a constant series next to a varying one
C18_Witness ==
    /\ risk_args.fn = "correlation_matrix"
    /\ Len(risk_args.series_matrix) = 2
    /\ Len(risk_args.series_matrix[1]) >= 2
    /\ ZeroVariance(risk_args.series_matrix[1])
    /\ ~ZeroVariance(risk_args.series_matrix[2])
    /\ risk_result[1][2] = PyNone
    /\ risk_result[2][2] = One

(***************************************************************************)
(* utils/sanitization.py                                                   *)
(***************************************************************************)
\* bounds of the values handed to the sanitizers
SanMax == 6
SanDen == 4
MaxDepth == 2
MaxItems == 2

\* an int beyond the range of a float, such as 10 ** 400
HugeInt == [t |-> "int", huge |-> TRUE]
NpFloat(q) == [t |-> "numpy.float64", v |-> q]
NpInt(k) == [t |-> "numpy.int64", i |-> k]
PyStr(s) == [t |-> "str", s |-> s]
Timestamp(day) == [t |-> "Timestamp", day |-> day]
PyList(items) == [t |-> "list", items |-> items]
PyTuple(items) == [t |-> "tuple", items |-> items]
PyDict(items) == [t |-> "dict", items |-> items]
PyObject == [t |-> "object"]

TypeError == [error |-> "TypeError"]
ValueError == [error |-> "ValueError"]
OverflowError == [error |-> "OverflowError"]

\* float(s) for a string
ParseFloat(s) ==
    IF s = "1.5" THEN Q(3, 2)
    ELSE IF s = "-2" THEN Q(-2, 1)
    ELSE IF s = "nan" THEN NaN
    ELSE IF s = "inf" THEN PosInf
    ELSE IF s = "-inf" THEN NegInf
    ELSE ValueError

\* float(value): the number, or the exception raised
FloatOf(value) ==
    IF value.t \in {"float", "numpy.float64"} THEN value.v
    ELSE IF value = HugeInt THEN OverflowError
    ELSE IF value.t \in {"int", "numpy.int64"} THEN Q(value.i, 1)
    ELSE IF value.t = "str" THEN ParseFloat(value.s)
    ELSE TypeError

\* sanitize_number testing math.isnan only
sanitize_number_nan_only(value) ==
    IF value = PyNone THEN PyNone
    ELSE LET num == FloatOf(value)
         IN  IF num \in {TypeError, ValueError} THEN PyNone
             ELSE IF IsError(num) THEN num
             ELSE IF IsNaN(num) THEN PyNone
             ELSE PyFloat(num)

\* the returned value, or the exception that leaves the function
sanitize_number(value) ==
    IF value = PyNone THEN PyNone
    ELSE LET num == FloatOf(value)
         IN  IF num \in {TypeError, ValueError} THEN PyNone
             ELSE IF IsError(num) THEN num
             ELSE IF IsNaN(num) \/ num \in {PosInf, NegInf} THEN PyNone
             ELSE PyFloat(num)

\* pd.Timestamp.isoformat()
IsoFormat(day) ==
    IF day = 0 THEN "1970-01-01T00:00:00" ELSE "1970-01-02T00:00:00"

\* isinstance(value, np.generic)
IsNpGeneric(value) == value.t \in {"numpy.float64", "numpy.int64"}

RECURSIVE to_serializable(_)
to_serializable(value) ==
    IF value.t \in {"list", "tuple"}
    THEN PyList([i \in 1..Len(value.items) |-> to_serializable(value.items[i])])
    ELSE IF value.t = "dict"
    THEN PyDict([k \in DOMAIN value.items |-> to_serializable(value.items[k])])
    ELSE IF IsNpGeneric(value) THEN sanitize_number(value)
    ELSE IF value.t = "Timestamp" THEN PyStr(IsoFormat(value.day))
    ELSE value

SanFloats == {NaN, PosInf, NegInf} \cup {Q(k, SanDen) : k \in -SanMax..SanMax}
SanStrings == {"1.5", "-2", "nan", "inf", "-inf", "abc", ""}
\* the values handed to sanitize_number
SanValues ==
    {PyNone, HugeInt, PyObject, PyList(<<>>), Timestamp(0)}
        \cup {PyFloat(q) : q \in SanFloats}
        \cup {NpFloat(q) : q \in SanFloats}
        \cup {PyInt(k) : k \in -SanMax..SanMax}
        \cup {NpInt(k) : k \in -SanMax..SanMax}
        \cup {PyStr(s) : s \in SanStrings}

SerScalars ==
    {PyInt(1), PyFloat(One), PyFloat(NaN), NpFloat(Q(3, 2)), NpFloat(NaN),
     NpFloat(PosInf), Timestamp(0)}
SeqsUpTo(S, len) == UNION {[1..k -> S] : k \in 0..len}

RECURSIVE SerValues(_)
\* the values of nesting depth at most d handed to to_serializable
SerValues(d) ==
    IF d = 0 THEN SerScalars
    ELSE LET inner == SerValues(d - 1)
         IN  inner
                \cup {PyList(s) : s \in SeqsUpTo(inner, MaxItems)}
                \cup {PyTuple(s) : s \in SeqsUpTo(inner, MaxItems)}
                \cup {PyDict(f) : f \in [{"x"} -> inner]}

InitSanitize ==
    /\ san_args = NoArgs
    /\ san_result = NoResult
    /\ san_prev = NoResult
    /\ san_calls = 0

SanitizeNumber ==
    /\ san_calls = 0
    /\ \E value \in SanValues :
         /\ san_args' = [fn |-> "sanitize_number", value |-> value]
         /\ san_result' = sanitize_number(value)
    /\ san_calls' = 1
    /\ UNCHANGED <<san_prev, rbVars, opVars, simVars, bondVars, riskVars, paVars, batchVars, rlVars, cacheVars>>

\* the caller hands the returned value to sanitize_number once more
SanitizeNumberAgain ==
    /\ san_calls = 1
    /\ san_args.fn = "sanitize_number"
    /\ ~IsError(san_result)
    /\ san_prev' = san_result
    /\ san_result' = sanitize_number(san_result)
    /\ san_calls' = 2
    /\ UNCHANGED <<san_args, rbVars, opVars, simVars, bondVars, riskVars, paVars, batchVars, rlVars, cacheVars>>

ToSerializable ==
    /\ san_calls = 0
    /\ \E value \in SerValues(MaxDepth) :
         /\ san_args' = [fn |-> "to_serializable", value |-> value]
         /\ san_result' = to_serializable(value)
    /\ san_calls' = 1
    /\ UNCHANGED <<san_prev, rbVars, opVars, simVars, bondVars, riskVars, paVars, batchVars, rlVars, cacheVars>>

NextSanitizeNumber == SanitizeNumber \/ SanitizeNumberAgain
NextSerializable == ToSerializable
NextSanitize == NextSanitizeNumber \/ NextSerializable

(***************************************************************************)
(* Claims about sanitization                                               *)
(***************************************************************************)
RECURSIVE HasNonFinite(_)
\* a NaN or an infinity occurs somewhere in the value
HasNonFinite(value) ==
    IF value.t \in {"list", "tuple"}
    THEN \E i \in 1..Len(value.items) : HasNonFinite(value.items[i])
    ELSE IF value.t = "dict"
    THEN \E k \in DOMAIN value.items : HasNonFinite(value.items[k])
    ELSE IF value.t \in {"float", "numpy.float64"} THEN ~IsFinite(value.v)
    ELSE FALSE

\* C19 as stated: to_serializable replaces every non-finite number at any
\* depth of nested lists, tuples and dicts with None, so no NaN or infinity
\* remains anywhere in its output, whether it came as a numpy scalar or as
\* a plain Python float.
C19_NoNonFiniteRemains ==
    (san_calls >= 1 /\ san_args.fn = "to_serializable") => ~HasNonFinite(san_result)

IsNumber(value) == value.t \in {"float", "numpy.float64", "int", "numpy.int64"}
\* the value of a number that float() represents
NumberValue(value) ==
    IF value.t \in {"float", "numpy.float64"} THEN value.v ELSE Q(value.i, 1)
IsFiniteNumber(value) ==
    IsNumber(value) /\ (value = HugeInt \/ IsFinite(NumberValue(value)))
\* float(value) raises TypeError or ValueError
NotConvertible(value) ==
    ~IsNumber(value) /\ value # PyNone /\ FloatOf(value) \in {TypeError, ValueError}

\* what the first application to the argument returned
FirstResult == IF san_calls = 2 THEN san_prev ELSE san_result

MaxHoldings == 3
\* quantities range over -1 .. MaxQuantity, and +inf
MaxQuantity == 2

\* a portfolio is its list of holdings; a holding has a symbol and a quantity
Portfolios ==
    UNION {[1..n -> [symbol : {"AAA"},
                     quantity : {Q(k, 1) : k \in -1..MaxQuantity} \cup {PosInf}]] :
              n \in 0..MaxHoldings}

\* what the risk block of analyse does: it raises an Exception, or it computes
\* the six risk fields
RiskOutcomes ==
    [raised : {TRUE},
     error : {"ValueError", "LinAlgError", "ZeroDivisionError"},
     message : {"", "SVD did not converge"}]
    \cup [raised : {FALSE},
          var95 : {NpFloat(Zero), NpFloat(One), NpFloat(NaN)},
          max_drawdown : {PyFloat(Zero), PyFloat(Q(-1, 2))}]

\* portfolio.dict()
PortfolioDict(portfolio) ==
    PyDict([k \in {"holdings", "constraints"} |->
        IF k = "constraints" THEN PyList(<<>>)
        ELSE PyList([i \in 1..Len(portfolio) |->
                 PyDict([f \in {"instrument", "quantity", "weight"} |->
                     CASE f = "instrument" ->
                              PyDict([g \in {"symbol", "name"} |->
                                  IF g = "symbol" THEN PyStr(portfolio[i].symbol)
                                  ELSE PyNone])
                       [] f = "quantity" -> PyFloat(portfolio[i].quantity)
                       [] OTHER -> PyNone])])])

\* Portfolio.total_value: sum() of the quantities, the int 0 for no holdings
total_value(portfolio) ==
    IF Len(portfolio) = 0 THEN PyInt(0)
    ELSE PyFloat(QSum([i \in 1..Len(portfolio) |-> portfolio[i].quantity]))

RiskKeys ==
    {"var95", "max_drawdown", "drawdown_start", "drawdown_end",
     "drawdown_recovery", "correlation_matrix"}

\* mutant: the risk block without its try/except
analyse_uncaught(portfolio, risk) ==
    IF risk.raised THEN [error |-> risk.error, message |-> risk.message]
    ELSE PyDict([k \in {"portfolio", "total_value", "weights"} |-> PyNone])

analyse(portfolio, risk) ==
    LET total_qty == QSum([i \in 1..Len(portfolio) |-> portfolio[i].quantity])
        weights == [i \in 1..Len(portfolio) |->
                       PyFloat(IF total_qty = Zero THEN Zero
                               ELSE QDiv(portfolio[i].quantity, total_qty))]
        keys == {"portfolio", "total_value", "weights"}
                    \cup (IF risk.raised THEN {"error"} ELSE RiskKeys)
        result == [k \in keys |->
            CASE k = "portfolio" -> PortfolioDict(portfolio)
              [] k = "total_value" -> total_value(portfolio)
              [] k = "weights" -> PyList(weights)
              [] k = "error" -> PyStr("Risk analytics failed: " \o risk.message)
              [] k = "var95" -> risk.var95
              [] k = "max_drawdown" -> risk.max_drawdown
              [] k = "correlation_matrix" ->
                     PyList([i \in 1..Len(portfolio) |->
                         PyList([j \in 1..Len(portfolio) |->
                             PyFloat(IF i = j THEN One ELSE Zero)])])
              [] OTHER -> PyInt(0)]
    IN  to_serializable(PyDict(result))

NoPortfolio == <<>>
NoRisk == [raised |-> FALSE]

InitPortfolioAnalysis ==
    /\ pa_pc = "idle"
    /\ pa_portfolio = NoPortfolio
    /\ pa_risk = NoRisk
    /\ pa_result = PyNone

\* a caller has a portfolio analysed; the risk block succeeds or raises
Analyse ==
    /\ pa_pc = "idle"
    /\ \E portfolio \in Portfolios, risk \in RiskOutcomes :
          /\ pa_portfolio' = portfolio
          /\ pa_risk' = risk
          /\ pa_result' = analyse(portfolio, risk)
    /\ pa_pc' = "returned"
    /\ UNCHANGED <<rbVars, opVars, simVars, bondVars, riskVars, sanVars, batchVars, rlVars, cacheVars>>

NextPortfolioAnalysis == Analyse

\* C29: when the risk block raises, analyse does not raise; it returns a dict
\* with exactly the keys portfolio, total_value, weights and error, where
\* portfolio is the portfolio's dict, total_value the sum of the quantities,
\* weights the quantities over their total (all zeros for a total of 0), and
\* error the failure's message; none of the risk fields is present.
C29_RiskFailureContained ==
    (pa_pc = "returned" /\ pa_risk.raised)
        => /\ ~IsError(pa_result)
           /\ pa_result.t = "dict"
           /\ DOMAIN pa_result.items = {"portfolio", "total_value", "weights", "error"}
           /\ pa_result.items["portfolio"] = PortfolioDict(pa_portfolio)
           /\ LET n == Len(pa_portfolio)
                  qty == [i \in 1..n |-> pa_portfolio[i].quantity]
                  w == pa_result.items["weights"].items
              IN  /\ n > 0 => pa_result.items["total_value"] = PyFloat(QSum(qty))
                  /\ n = 0 => pa_result.items["total_value"] = PyInt(0)
                  /\ Len(w) = n
                  /\ \A i \in 1..n :
                        w[i] = PyFloat(IF QSum(qty) = Zero THEN Zero
                                       ELSE QDiv(qty[i], QSum(qty)))
           /\ pa_result.items["error"].s = "Risk analytics failed: " \o pa_risk.message

\* the risk block raised for a portfolio of two holdings of unequal weight
C29_Witness ==
    /\ pa_pc = "returned"
    /\ pa_risk.raised
    /\ pa_risk.message # ""
    /\ Len(pa_portfolio) = 2
    /\ pa_result.items["weights"].items = <<PyFloat(Q(1, 3)), PyFloat(Q(2, 3))>>
    /\ pa_result.items["total_value"] = PyFloat(Q(3, 1))
    /\ "var95" \notin DOMAIN pa_result.items


(***************************************************************************)
(* presentation/api/app.py: the batch endpoints analyse_equity and         *)
(* analyse_bond, and run_v3_equity_analysis of scripts/validate_parity.py  *)
(***************************************************************************)
\* largest number of items in a batch request
MaxBatch == 3

Endpoints == {"equity", "bond", "parity"}
Identifiers == {"AAA", "BBB"}
\* a request body: one that the request schema rejects, or a list of items
\* (the parity script takes its list as an argument and validates nothing)
Requests ==
    [endpoint : {"equity", "bond"}, valid : {FALSE}, items : {<<>>}]
    \cup [endpoint : Endpoints, valid : {TRUE},
          items : UNION {[1..n -> Identifiers] : n \in 0..MaxBatch}]
\* what service.analyse(item) does: it returns the analysis or raises
ItemOutcomes == [raised : BOOLEAN, message : {"no data"}]

\* the dict service.analyse returns for an item
AnalysisOf(endpoint, item) ==
    [analysis |-> IF endpoint = "bond" THEN "bond" ELSE "equity", of |-> item]
\* the dict the except branch appends
ErrorEntry(endpoint, item, message) ==
    IF endpoint = "bond" THEN [isin |-> item, error |-> message]
    ELSE [ticker |-> item, error |-> message]

\* mutant: a failing item is logged and leaves no entry
analyse_item_drop_failed(endpoint, res, item, outcome) ==
    IF outcome.raised THEN res ELSE Append(res, AnalysisOf(endpoint, item))

\* one pass of the loop body: results after the item
analyse_item(endpoint, res, item, outcome) ==
    IF outcome.raised
    THEN Append(res, ErrorEntry(endpoint, item, outcome.message))
    ELSE Append(res, AnalysisOf(endpoint, item))

NoRequest == [endpoint |-> "none", valid |-> FALSE, items |-> <<>>]

InitBatch ==
    /\ batch_pc = "idle"
    /\ batch_req = NoRequest
    /\ batch_results = <<>>
    /\ batch_analysed = <<>>
    /\ batch_status = 0

\* the handler parses the request: 400 for a body the schema rejects,
\* otherwise the loop starts with no results
BatchReceive ==
    /\ batch_pc = "idle"
    /\ \E req \in Requests :
          /\ batch_req' = req
          /\ batch_pc' = IF req.valid THEN "loop" ELSE "responded"
          /\ batch_status' = IF req.valid THEN 0 ELSE 400
    /\ UNCHANGED <<batch_results, batch_analysed, rbVars, opVars, simVars, bondVars, riskVars, sanVars, paVars, rlVars, cacheVars>>

\* the loop body for the next item of the request
BatchItem ==
    /\ batch_pc = "loop"
    /\ Len(batch_analysed) < Len(batch_req.items)
    /\ LET item == batch_req.items[Len(batch_analysed) + 1]
       IN  /\ \E outcome \in ItemOutcomes :
                 batch_results' = analyse_item(batch_req.endpoint, batch_results,
                                               item, outcome)
           /\ batch_analysed' = Append(batch_analysed, item)
    /\ UNCHANGED <<batch_pc, batch_req, batch_status, rbVars, opVars, simVars, bondVars, riskVars, sanVars, paVars, rlVars, cacheVars>>

\* the loop is over: the handler responds with the results
BatchRespond ==
    /\ batch_pc = "loop"
    /\ Len(batch_analysed) = Len(batch_req.items)
    /\ batch_pc' = "responded"
    /\ batch_status' = 200
    /\ UNCHANGED <<batch_req, batch_results, batch_analysed, rbVars, opVars, simVars, bondVars, riskVars, sanVars, paVars, rlVars, cacheVars>>

NextBatch == BatchReceive \/ BatchItem \/ BatchRespond

\* C21: a valid batch request is answered 200 with exactly one result per
\* item, in request order; the i-th result is the analysis of the i-th item
\* or an error entry naming it (under ticker, or isin for the bond endpoint),
\* and every item was handed to the service, those after a failure included.
C21_BatchNeverAborts ==
    /\ (batch_pc = "responded" /\ batch_req.valid)
          => /\ batch_status = 200
             /\ Len(batch_results) = Len(batch_req.items)
             /\ batch_analysed = batch_req.items
             /\ \A i \in 1..Len(batch_req.items) :
                   LET item == batch_req.items[i]
                       key == IF batch_req.endpoint = "bond" THEN "isin" ELSE "ticker"
                   IN  \/ batch_results[i] = AnalysisOf(batch_req.endpoint, item)
                       \/ /\ DOMAIN batch_results[i] = {key, "error"}
                          /\ batch_results[i][key] = item
    /\ batch_pc = "loop" => Len(batch_results) = Len(batch_analysed)

\* the first item failed, the items after it were analysed, and the
\* response carries all three results
C21_Witness ==
    /\ batch_pc = "responded"
    /\ batch_status = 200
    /\ batch_req.endpoint = "equity"
    /\ Len(batch_req.items) = 3
    /\ batch_results[1] = [ticker |-> batch_req.items[1], error |-> "no data"]
    /\ batch_results[2] = AnalysisOf("equity", batch_req.items[2])
    /\ batch_results[3] = AnalysisOf("equity", batch_req.items[3])


(***************************************************************************)
(* infrastructure/external/rate_limiter.py: RateLimiter                    *)
(***************************************************************************)
\* largest max_calls of a limiter
MaxCalls == 2
\* largest period_seconds of a limiter, in clock ticks
MaxPeriod == 2

Threads == {"t1", "t2"}
NoThread == "none"

\* mutant: a lock that never blocks
LockAlwaysFree == TRUE

\* threading.Lock: free when no thread holds it
LockFree == rl_lock = NoThread

\* mutant: updated_at is set to now on every call
refill_always_stamp(tokens, elapsed, max_calls, period) ==
    LET new_tokens == (elapsed * max_calls) \div period
    IN  [tokens |-> IMin(max_calls, tokens + new_tokens), elapsed |-> 0]

\* _refill, with elapsed = now - updated_at: the tokens and the elapsed time
\* (0 when updated_at is set to now) it leaves
refill(tokens, elapsed, max_calls, period) ==
    LET new_tokens == (elapsed * max_calls) \div period
    IN  IF new_tokens >= 1
        THEN [tokens |-> IMin(max_calls, tokens + new_tokens), elapsed |-> 0]
        ELSE [tokens |-> tokens, elapsed |-> elapsed]

InAcquire(th) == rl_pc[th] \notin {"idle", "returned"}

InitRateLimiter ==
    /\ rl_max = 0
    /\ rl_period = 0
    /\ rl_tokens = 0
    /\ rl_elapsed = 0
    /\ rl_lock = NoThread
    /\ rl_pc = [th \in Threads |-> "idle"]
    /\ rl_reg = [th \in Threads |-> 0]
    /\ rl_overtaken = [th \in Threads |-> FALSE]
    /\ rl_win_age = 0
    /\ rl_win_count = 0

\* RateLimiter(max_calls, period_seconds)
RateLimiterNew ==
    /\ rl_period = 0
    /\ \E max_calls \in 0..MaxCalls, period \in 1..MaxPeriod :
          /\ rl_max' = max_calls
          /\ rl_period' = period
          /\ rl_tokens' = max_calls
          /\ rl_win_age' = period
    /\ rl_elapsed' = 0
    /\ UNCHANGED <<rl_lock, rl_pc, rl_reg, rl_overtaken, rl_win_count, rbVars, opVars, simVars, bondVars, riskVars, sanVars, paVars, batchVars, cacheVars>>

\* the monotonic clock advances by one tick; an elapsed time of a whole period
\* refills the bucket whatever is added to it, so it is kept up to the period.
\* The observed window [start, start + period) ages with the clock.
TimePasses ==
    /\ rl_period > 0
    /\ rl_elapsed' = IMin(rl_elapsed + 1, rl_period)
    /\ rl_win_age' = IMin(rl_win_age + 1, rl_period)
    /\ rl_win_count' = IF rl_win_age + 1 >= rl_period THEN 0 ELSE rl_win_count
    /\ UNCHANGED <<rl_max, rl_period, rl_tokens, rl_lock, rl_pc, rl_reg, rl_overtaken, rbVars, opVars, simVars, bondVars, riskVars, sanVars, paVars, batchVars, cacheVars>>

\* a thread calls acquire()
Call(th) ==
    /\ rl_period > 0
    /\ ~InAcquire(th)
    /\ rl_pc' = [rl_pc EXCEPT ![th] = "wait_lock"]
    /\ rl_overtaken' = [rl_overtaken EXCEPT ![th] = FALSE]
    /\ UNCHANGED <<rl_max, rl_period, rl_tokens, rl_elapsed, rl_lock, rl_reg, rl_win_age, rl_win_count, rbVars, opVars, simVars, bondVars, riskVars, sanVars, paVars, batchVars, cacheVars>>

\* with self.lock: the thread enters when the lock is free
Lock(th) ==
    /\ rl_pc[th] = "wait_lock"
    /\ LockFree
    /\ rl_lock' = th
    /\ rl_pc' = [rl_pc EXCEPT ![th] = "locked"]
    /\ UNCHANGED <<rl_max, rl_period, rl_tokens, rl_elapsed, rl_reg, rl_overtaken, rl_win_age, rl_win_count, rbVars, opVars, simVars, bondVars, riskVars, sanVars, paVars, batchVars, cacheVars>>

\* self._refill()
Refill(th) ==
    /\ rl_pc[th] = "locked"
    /\ LET r == refill(rl_tokens, rl_elapsed, rl_max, rl_period)
       IN  /\ rl_tokens' = r.tokens
           /\ rl_elapsed' = r.elapsed
    /\ rl_pc' = [rl_pc EXCEPT ![th] = "check"]
    /\ UNCHANGED <<rl_max, rl_period, rl_lock, rl_reg, rl_overtaken, rl_win_age, rl_win_count, rbVars, opVars, simVars, bondVars, riskVars, sanVars, paVars, batchVars, cacheVars>>

\* if self.tokens > 0: go on to take a token; otherwise leave the with block
\* and sleep
Check(th) ==
    /\ rl_pc[th] = "check"
    /\ IF rl_tokens > 0
       THEN /\ rl_pc' = [rl_pc EXCEPT ![th] = "load"]
            /\ UNCHANGED rl_lock
       ELSE /\ rl_pc' = [rl_pc EXCEPT ![th] = "sleep"]
            /\ rl_lock' = NoThread
    /\ UNCHANGED <<rl_max, rl_period, rl_tokens, rl_elapsed, rl_reg, rl_overtaken, rl_win_age, rl_win_count, rbVars, opVars, simVars, bondVars, riskVars, sanVars, paVars, batchVars, cacheVars>>

\* self.tokens -= 1 reads the count ...
Load(th) ==
    /\ rl_pc[th] = "load"
    /\ rl_reg' = [rl_reg EXCEPT ![th] = rl_tokens]
    /\ rl_pc' = [rl_pc EXCEPT ![th] = "store"]
    /\ UNCHANGED <<rl_max, rl_period, rl_tokens, rl_elapsed, rl_lock, rl_overtaken, rl_win_age, rl_win_count, rbVars, opVars, simVars, bondVars, riskVars, sanVars, paVars, batchVars, cacheVars>>

\* ... and writes it back less one; the call returns and the lock is released.
\* The return falls in the observed window, or opens one when none is open.
Store(th) ==
    /\ rl_pc[th] = "store"
    /\ rl_tokens' = rl_reg[th] - 1
    /\ rl_reg' = [rl_reg EXCEPT ![th] = 0]
    /\ rl_lock' = NoThread
    /\ rl_pc' = [rl_pc EXCEPT ![th] = "returned"]
    /\ rl_overtaken' = [u \in Threads |-> rl_overtaken[u] \/ (u # th /\ InAcquire(u))]
    /\ IF rl_win_age >= rl_period
       THEN rl_win_age' = 0 /\ rl_win_count' = 1
       ELSE rl_win_age' = rl_win_age /\ rl_win_count' = rl_win_count + 1
    /\ UNCHANGED <<rl_max, rl_period, rl_elapsed, rbVars, opVars, simVars, bondVars, riskVars, sanVars, paVars, batchVars, cacheVars>>

\* time.sleep(0.05) is over
Wake(th) ==
    /\ rl_pc[th] = "sleep"
    /\ rl_pc' = [rl_pc EXCEPT ![th] = "wait_lock"]
    /\ UNCHANGED <<rl_max, rl_period, rl_tokens, rl_elapsed, rl_lock, rl_reg, rl_overtaken, rl_win_age, rl_win_count, rbVars, opVars, simVars, bondVars, riskVars, sanVars, paVars, batchVars, cacheVars>>

\* the steps of a thread inside acquire()
AcquireStep(th) ==
    Lock(th) \/ Refill(th) \/ Check(th) \/ Load(th) \/ Store(th) \/ Wake(th)

NextRateLimiter ==
    \/ RateLimiterNew
    \/ TimePasses
    \/ \E th \in Threads : Call(th)
    \/ \E th \in Threads : AcquireStep(th)


\* C22 as stated: in any time window of length period_seconds at most
\* max_calls calls to acquire() return.  The observed window opens at a return
\* and lasts one period, so the returns counted in it are at most max_calls.
C22_AtMostMaxCallsPerWindow ==
    (rl_period > 0 /\ rl_win_age < rl_period) => rl_win_count <= rl_max

\* C23: under any interleaving of acquire() calls the token count stays
\* within 0..max_calls, and the step by which a call returns lowers the count
\* by exactly one, so no two callers are granted the same token.
C23_ThreadSafe ==
    /\ [](rl_tokens \in 0..rl_max)
    /\ [][\A th \in Threads :
              (rl_pc[th] = "store" /\ rl_pc'[th] = "returned")
                  => rl_tokens' = rl_tokens - 1]_vars

\* both threads were inside acquire() at once, one waiting for the lock the
\* other held, and both have returned with a token each
C23_Witness ==
    /\ rl_max = 2
    /\ \A th \in Threads : rl_pc[th] = "returned"
    /\ \E th \in Threads : rl_overtaken[th]
    /\ rl_win_count = 2
    /\ rl_tokens = 0

\* C27 as stated: with max_calls >= 1, time advancing and weakly fair
\* scheduling, every call to acquire() eventually returns, even with other
\* callers competing for tokens.
C27_EveryAcquireReturns ==
    \A th \in Threads :
        (rl_max >= 1 /\ InAcquire(th)) ~> (rl_pc[th] = "returned")

\* C27 amended: with max_calls >= 1, time advancing and weakly fair
\* scheduling, a call to acquire() eventually returns unless another caller
\* returns with a token while it waits; a caller without competition always
\* returns, and the limiter never blocks every caller forever.
C27_ReturnsUnlessOvertaken ==
    \A th \in Threads :
        (rl_max >= 1 /\ InAcquire(th))
            ~> (rl_pc[th] = "returned" \/ rl_overtaken[th])

\* a caller returned with a refilled token, nobody having returned since it
\* called, while the other caller, which found no token, sleeps
C27_Witness ==
    \E th \in Threads :
        /\ rl_max = 1
        /\ rl_period = 2
        /\ rl_pc[th] = "returned"
        /\ ~rl_overtaken[th]
        /\ rl_tokens = 0
        /\ rl_elapsed = 0
        /\ rl_win_age = 0
        /\ rl_win_count = 1
        /\ \E u \in Threads \ {th} : rl_pc[u] = "sleep"


(***************************************************************************)
(* infrastructure/data_sources/caching.py: CachedDataSource                *)
(***************************************************************************)
\* largest ttl of a cache, in clock ticks
MaxTtl == 2
\* the underlying source's data for a ticker comes in versions 1..MaxVersions
MaxVersions == 2

Tickers == {"AAA"}
Isins == {"X1", "X2"}
\* the bonds handed to get_duration_metrics: an ISIN and the terms of the bond
CachedBonds == [isin : Isins, coupon_rate : {Q(1, 2), One}]
CacheCalls ==
    [method : {"get_equity_fundamentals"}, ticker : Tickers]
    \cup [method : {"get_duration_metrics"}, bond : CachedBonds]

\* the key a method looks up: f"eq_fundamentals:{ticker}", f"duration:{bond.isin}"
CacheKey(call) ==
    IF call.method = "get_equity_fundamentals"
    THEN <<"eq_fundamentals", call.ticker>>
    ELSE <<"duration", call.bond.isin>>
CacheKeys == {CacheKey(call) : call \in CacheCalls}

\* what the underlying source computes for a bond
MetricsOf(bond) == [metrics_of |-> bond]
DataSourceError == [error |-> "DataSourceError"]
\* what the underlying source answers to a call: a value, or it raises
UnderlyingAnswers(call) ==
    IF call.method = "get_equity_fundamentals"
    THEN {[fundamentals_of |-> call.ticker, version |-> v] : v \in 1..MaxVersions}
             \cup {DataSourceError}
    ELSE {MetricsOf(call.bond), DataSourceError}

\* an entry is absent, or a value with the time since its timestamp; an age
\* beyond the ttl is kept as ttl + 1
NoEntry == [present |-> FALSE]
Entry(value, age) == [present |-> TRUE, value |-> value, age |-> age]

\* mutant: an entry expires when its age reaches the ttl
ExpiredAtTtl(entry, ttl) == entry.age >= ttl

\* (time.time() - timestamp) > self.ttl
Expired(entry, ttl) == entry.age > ttl

NoCall == [method |-> "none"]

InitCache ==
    /\ cache_pc = "none"
    /\ cache_ttl = 0
    /\ cache = [k \in CacheKeys |-> NoEntry]
    /\ cache_call = NoCall
    /\ cache_found = NoEntry
    /\ cache_fetches = 0
    /\ cache_result = PyNone

\* CachedDataSource(underlying, ttl=...)
CacheNew ==
    /\ cache_pc = "none"
    /\ cache_ttl' \in 0..MaxTtl
    /\ cache_pc' = "idle"
    /\ UNCHANGED <<cache, cache_call, cache_found, cache_fetches, cache_result, rbVars, opVars, simVars, bondVars, riskVars, sanVars, paVars, batchVars, rlVars>>

\* time.time() advances by one tick; a call that had just returned is over
CacheClock ==
    /\ cache_pc \in {"idle", "fetching", "returned"}
    /\ cache_pc' = IF cache_pc = "fetching" THEN "fetching" ELSE "idle"
    /\ cache' = [k \in CacheKeys |->
                    IF cache[k].present
                    THEN Entry(cache[k].value, IMin(cache[k].age + 1, cache_ttl + 1))
                    ELSE NoEntry]
    /\ UNCHANGED <<cache_ttl, cache_call, cache_found, cache_fetches, cache_result, rbVars, opVars, simVars, bondVars, riskVars, sanVars, paVars, batchVars, rlVars>>

\* a method is called and runs _get_from_cache: a live entry is returned, an
\* expired one is deleted, and without a live entry the method goes on to the
\* underlying source
CacheLookup ==
    /\ cache_pc \in {"idle", "returned"}
    /\ \E call \in CacheCalls :
          LET key == CacheKey(call)
              entry == cache[key]
          IN  /\ cache_call' = call
              /\ cache_found' = entry
              /\ cache_fetches' = 0
              /\ IF entry.present /\ ~Expired(entry, cache_ttl)
                 THEN /\ cache_result' = entry.value
                      /\ cache_pc' = "returned"
                      /\ UNCHANGED cache
                 ELSE /\ cache' = [cache EXCEPT ![key] = NoEntry]
                      /\ cache_pc' = "fetching"
                      /\ UNCHANGED cache_result
    /\ UNCHANGED <<cache_ttl, rbVars, opVars, simVars, bondVars, riskVars, sanVars, paVars, batchVars, rlVars>>

\* the underlying source answers: its value is stored with the current time
\* and returned, or its exception leaves the method
CacheFetch ==
    /\ cache_pc = "fetching"
    /\ \E answer \in UnderlyingAnswers(cache_call) :
          /\ cache_result' = answer
          /\ cache' = IF answer = DataSourceError THEN cache
                      ELSE [cache EXCEPT ![CacheKey(cache_call)] = Entry(answer, 0)]
    /\ cache_fetches' = cache_fetches + 1
    /\ cache_pc' = "returned"
    /\ UNCHANGED <<cache_ttl, cache_call, cache_found, rbVars, opVars, simVars, bondVars, riskVars, sanVars, paVars, batchVars, rlVars>>

NextCache == CacheNew \/ CacheClock \/ CacheLookup \/ CacheFetch

\* a call has returned, and the clock has not advanced since
CacheReturned == cache_pc = "returned"

\* C26: a lookup that finds an entry whose age is at most the ttl returns the
\* cached value without calling the underlying source and leaves the entry as
\* it is; a lookup that finds an entry older than the ttl evicts it, calls the
\* underlying source once and, when that answers, caches the fresh value with
\* the time of the answer.
C26_TtlHonoured ==
    LET key == CacheKey(cache_call)
    IN  /\ (CacheReturned /\ cache_found.present /\ cache_found.age <= cache_ttl)
              => /\ cache_result = cache_found.value
                 /\ cache_fetches = 0
                 /\ cache[key] = cache_found
        /\ (cache_pc = "fetching" /\ cache_found.present)
              => /\ cache_found.age > cache_ttl
                 /\ cache[key] = NoEntry
                 /\ cache_fetches = 0
        /\ (CacheReturned /\ cache_found.present /\ cache_found.age > cache_ttl)
              => /\ cache_fetches = 1
                 /\ cache_result # DataSourceError
                        => cache[key] = Entry(cache_result, 0)
                 /\ cache_result = DataSourceError => cache[key] = NoEntry

\* an entry of age ttl was served from the cache, in a cache with ttl > 0
C26_Witness ==
    /\ CacheReturned
    /\ cache_call.method = "get_equity_fundamentals"
    /\ cache_ttl > 0
    /\ cache_found.present
    /\ cache_found.age = cache_ttl
    /\ cache_fetches = 0
    /\ cache_result = cache_found.value

\* C30 as stated: get_duration_metrics returns metrics computed from the bond
\* passed in the call, even when an earlier call within the ttl passed a
\* different bond with the same ISIN.
C30_MetricsOfTheBondPassed ==
    (/\ CacheReturned
     /\ cache_call.method = "get_duration_metrics"
     /\ cache_result # DataSourceError)
        => cache_result = MetricsOf(cache_call.bond)


Init ==
    /\ InitRebalance
    /\ InitOptimizer
    /\ InitSimulation
    /\ InitBond
    /\ InitRisk
    /\ InitSanitize
    /\ InitPortfolioAnalysis
    /\ InitBatch
    /\ InitRateLimiter
    /\ InitCache

Next ==
    \/ NextNoTradeBand
    \/ NextRebalance
    \/ NextOptimizer
    \/ NextSimulation
    \/ NextBond
    \/ NextRisk
    \/ NextSanitize
    \/ NextPortfolioAnalysis
    \/ NextBatch
    \/ NextRateLimiter
    \/ NextCache

Spec == Init /\ [][Next]_vars

SpecRebalance == Init /\ [][NextRebalance]_vars

SpecNoTradeBand == Init /\ [][NextNoTradeBand]_vars

SpecOptimizer == Init /\ [][NextOptimizer]_vars

\* the calls of max_sharpe_ratio alone
SpecMaxSharpeRatio == Init /\ [][MaxSharpeRatio]_vars

SpecSimulation == Init /\ [][NextSimulation]_vars

SpecBond == Init /\ [][NextBond]_vars

SpecRisk == Init /\ [][NextRisk]_vars

SpecSanitizeNumber == Init /\ [][NextSanitizeNumber]_vars

SpecSerializable == Init /\ [][NextSerializable]_vars

SpecPortfolioAnalysis == Init /\ [][NextPortfolioAnalysis]_vars

SpecBatch == Init /\ [][NextBatch]_vars

SpecRateLimiter == Init /\ [][NextRateLimiter]_vars

SpecCache == Init /\ [][NextCache]_vars

\* time advances, and a thread inside acquire() is scheduled again and again
SpecRateLimiterFair ==
    /\ Init
    /\ [][NextRateLimiter]_vars
    /\ WF_vars(TimePasses)
    /\ \A th \in Threads : WF_vars(AcquireStep(th))

=============================================================================
